---- MODULE Spec2Model ----
(***************************************************************************)
(* TempoStrike: the note scheduling, collision and scoring engine.         *)
(*                                                                         *)
(* App (src/App.tsx) owns the session state (gameStatus, score, combo,     *)
(* multiplier, health, countdown, isNoFailMode, activeChart); GameScene    *)
(* (src/unnamed/part_000) owns the spawn cursor and the active notes and   *)
(* runs one useFrame callback per display frame.                           *)
(*                                                                         *)
(* Units: times are integers in milliseconds, lengths in thousandths of a  *)
(* world unit, so that 0.5 s, 1.5 units and 0.9 units are exact.           *)
(*                                                                         *)
(* React state: a setter called from the frame callback or from a timer    *)
(* does not change the state at once; the updates of one callback are      *)
(* queued per hook and applied by the next render, hook by hook in the     *)
(* order of the useState calls, and an updater function (s => ...) runs    *)
(* in that render.  A callback therefore reads the values of the render    *)
(* it was created in (multiplier in handleNoteHit, isNoFailMode in         *)
(* handleNoteMiss).  Each action below is one callback followed by the     *)
(* render that commits its updates.                                        *)
(***************************************************************************)
EXTENDS Integers, Sequences, FiniteSets, TLC

VARIABLES
    gameStatus,        \* App: useState<GameStatus>
    isCameraReady,     \* useMediaPipe: isCameraReady
    score,             \* App: useState(0)
    combo,             \* App: useState(0)
    multiplier,        \* App: useState(1)
    health,            \* App: useState(100)
    countdown,         \* App: useState(0)
    isNoFailMode,      \* App: useState(false)
    currentSongIndex,  \* App: useState(0), an index into Songs
    activeChart,       \* App: useState<NoteData[]>; the note objects, shared with GameScene
    activeNotesRef,    \* GameScene: useRef<NoteData[]>, as indices into activeChart
    nextNoteIndexRef,  \* GameScene: useRef(0), the spawn cursor (0-based as in the code)
    audio,             \* audioRef.current: currentTime, ended, paused
    playPending,       \* startGameplay is suspended at `await audioRef.current.play()`
    endGameTimers,     \* number of pending setTimeout(() => endGame(false), 0)
    librarySongs,      \* App: useState<SongConfig[]>, the songs read from the store
    songDB,            \* utils/db: the songs in the IndexedDB object store
    libraryOps,        \* the async library handlers suspended at an await
    showUploadModal,   \* App: useState(false)
    lastStep,          \* history: what the last step was (for a frame: its time and calls)
    session,           \* history: the calls and defeat signals since the start request
    pushCount          \* history: pushes of each note into activeNotesRef since the chart was set

vars == <<gameStatus, isCameraReady, score, combo, multiplier, health, countdown,
          isNoFailMode, currentSongIndex, activeChart, activeNotesRef,
          nextNoteIndexRef, audio, playPending, endGameTimers, librarySongs,
          songDB, libraryOps, showUploadModal, lastStep, session, pushCount>>

appVars == <<score, combo, multiplier, health>>
sceneVars == <<activeChart, activeNotesRef, nextNoteIndexRef>>
libVars == <<librarySongs, songDB, libraryOps, showUploadModal>>

----------------------------------------------------------------------------
(* Program constants (src/constants.ts), in world units.                   *)
SPAWN_Z == -30
PLAYER_Z == 0
MISS_Z == 5
NOTE_SPEED == 10

(* Bounds of the model.                                                    *)
MaxEndGameTimers == 2     \* frames run only while at most this many endGame timers wait
MaxSessionEvents == 33    \* SpecScore: hit and miss calls in one session
MaxIrregular == 1         \* SpecScore: per session, the calls other than an ok cut that is
                          \* the only hit of its frame (misses, good cuts, further hits)

----------------------------------------------------------------------------
(* Scoring: handleNoteHit and handleNoteMiss queue updates; the render     *)
(* applies them.                                                           *)

NoUpdates == [combo |-> <<>>, multiplier |-> <<>>, score |-> <<>>, health |-> <<>>]

\* The multiplier chosen inside the setCombo updater.
MultiplierFor(newCombo) ==
    IF newCombo > 30 THEN 8
    ELSE IF newCombo > 20 THEN 4
    ELSE IF newCombo > 10 THEN 2
    ELSE 1

\* handleNoteHit(note, goodCut), called with updates q already queued.
\* `eager`: the App fiber has no pending work and React computes the first
\* update at once (the setCombo updater, and the setMultiplier inside it,
\* run at the call); otherwise the updater waits for the render.
handleNoteHit(q, goodCut, eager) ==
    LET points == IF goodCut THEN 100 + 50 ELSE 100
        runNow == eager /\ q = NoUpdates
        q1 == IF runNow
              THEN [q EXCEPT !.combo = Append(@, [kind |-> "set", value |-> combo + 1]),
                             !.multiplier = Append(@, MultiplierFor(combo + 1))]
              ELSE [q EXCEPT !.combo = Append(@, [kind |-> "inc", value |-> 0])]
    IN [q1 EXCEPT !.score = Append(@, points * multiplier),
                  !.health = Append(@, "heal")]

\* A miss handler that also takes 50 points off the score.
handleNoteMissPenalty(q) ==
    [q EXCEPT !.combo = Append(@, [kind |-> "set", value |-> 0]),
              !.multiplier = Append(@, 1),
              !.score = Append(@, -50)]

\* A miss handler that reduces health in no-fail mode too.
handleNoteMissAlwaysDamage(q) ==
    [q EXCEPT !.combo = Append(@, [kind |-> "set", value |-> 0]),
              !.multiplier = Append(@, 1),
              !.health = Append(@, "damage")]

\* handleNoteMiss(note), called with updates q already queued.
handleNoteMiss(q) ==
    LET q1 == [q EXCEPT !.combo = Append(@, [kind |-> "set", value |-> 0]),
                        !.multiplier = Append(@, 1)]
    IN IF ~isNoFailMode THEN [q1 EXCEPT !.health = Append(@, "damage")] ELSE q1

\* The calls of one frame, in the order the frame made them.
RECURSIVE DispatchCalls(_, _, _)
DispatchCalls(q, calls, eager) ==
    IF calls = <<>> THEN q
    ELSE LET c == Head(calls)
             q1 == IF c.kind = "hit" THEN handleNoteHit(q, c.goodCut, eager)
                   ELSE handleNoteMiss(q)
         IN DispatchCalls(q1, Tail(calls), eager)

\* The render runs the queued combo updates; an updater (c => c + 1) calls
\* setMultiplier while App renders, which queues behind the multiplier
\* updates made before the render.
RECURSIVE RenderCombo(_, _)
RenderCombo(c, updates) ==
    IF updates = <<>> THEN [combo |-> c, setMultiplier |-> <<>>]
    ELSE LET u == Head(updates)
             newCombo == IF u.kind = "inc" THEN c + 1 ELSE u.value
             rest == RenderCombo(newCombo, Tail(updates))
         IN [combo |-> rest.combo,
             setMultiplier |-> IF u.kind = "inc"
                               THEN <<MultiplierFor(newCombo)>> \o rest.setMultiplier
                               ELSE rest.setMultiplier]

RenderMultiplier(m, updates) ==
    IF updates = <<>> THEN m ELSE updates[Len(updates)]

RECURSIVE RenderScore(_, _)
RenderScore(s, updates) ==
    IF updates = <<>> THEN s ELSE RenderScore(s + Head(updates), Tail(updates))

\* Health updaters whose miss updater returns the new health unclamped.
RECURSIVE RenderHealthUnclamped(_, _)
RenderHealthUnclamped(h, updates) ==
    IF updates = <<>> THEN [health |-> h, timers |-> 0]
    ELSE LET newHealth == IF Head(updates) = "heal"
                          THEN (IF h + 2 < 100 THEN h + 2 ELSE 100)
                          ELSE h - 15
             dead == Head(updates) = "damage" /\ newHealth <= 0
             rest == RenderHealthUnclamped(newHealth, Tail(updates))
         IN [health |-> rest.health, timers |-> rest.timers + (IF dead THEN 1 ELSE 0)]

\* setHealth updaters: h => min(100, h + 2), and the miss updater, which
\* schedules endGame(false) when the new health is <= 0.
RECURSIVE RenderHealth(_, _)
RenderHealth(h, updates) ==
    IF updates = <<>> THEN [health |-> h, timers |-> 0]
    ELSE LET newHealth == IF Head(updates) = "heal"
                          THEN (IF h + 2 < 100 THEN h + 2 ELSE 100)
                          ELSE h - 15
             dead == Head(updates) = "damage" /\ newHealth <= 0
             rest == RenderHealth(IF dead THEN 0 ELSE newHealth, Tail(updates))
         IN [health |-> rest.health, timers |-> rest.timers + (IF dead THEN 1 ELSE 0)]

\* The render that commits the updates q of one callback.
CommitUpdates(q) ==
    LET c == RenderCombo(combo, q.combo)
        h == RenderHealth(health, q.health)
    IN /\ score' = RenderScore(score, q.score)
       /\ combo' = c.combo
       /\ multiplier' = RenderMultiplier(multiplier, q.multiplier \o c.setMultiplier)
       /\ health' = h.health
       /\ endGameTimers' = endGameTimers + h.timers

----------------------------------------------------------------------------
(* Chart generation (src/constants.ts).                                    *)

\* `hitTime?: number` before the first hit: no value.
Undefined == -1

\* The playlist, as a sample of SongConfig entries whose beat time is a whole
\* number of milliseconds (bpm, offset in ms).
Songs == << [bpm |-> 300, offset |-> 0], [bpm |-> 150, offset |-> 50] >>

\* Bounds of the model: the chart covers this many seconds of the track; a
\* frame reads the audio clock on a grid of TickStep ms, at most MaxJump grid
\* steps after the last frame and at most MaxTick grid steps into the track.
ChartSeconds == 4
TickStep == 400
MaxTick == 11
MaxJump == 3

\* The outcomes of Math.random the model draws from: every draw takes the
\* first lane of the hand's two lanes, or every draw takes the second.
LaneDraws == {0, 1}


\* A draw whose upper outcome is one past max.
getRandomIntPastMax(min, max, d) == IF d = 0 THEN min ELSE max + 1

\* getRandomInt(min, max) with the draw d in {0, 1} (max = min + 1).
getRandomInt(min, max, d) == IF d = 0 THEN min ELSE max

NewNote(id, time, lineIndex, lineLayer, type) ==
    [id |-> id, time |-> time, lineIndex |-> lineIndex, lineLayer |-> lineLayer,
     type |-> type, cutDirection |-> "ANY",
     hit |-> FALSE, missed |-> FALSE, hitTime |-> Undefined]


\* A pattern loop whose double hits push two left notes.
RECURSIVE PatternLoopPairOneHand(_, _, _, _, _, _)
PatternLoopPairOneHand(i, totalBeats, beatTime, offset, idCount, d) ==
    IF i >= totalBeats THEN <<>>
    ELSE LET time == offset + (i * beatTime)
             pattern == (i \div 16) % 3
             pushed ==
                 IF pattern = 0
                 THEN IF i % 4 = 0
                      THEN <<NewNote(idCount, time, getRandomInt(0, 1, d), 0, "left")>>
                      ELSE <<NewNote(idCount, time, getRandomInt(2, 3, d), 0, "right")>>
                 ELSE IF pattern = 1
                 THEN IF i % 8 = 0
                      THEN <<NewNote(idCount, time, 0, 1, "left"),
                             NewNote(idCount + 1, time, 3, 1, "left")>>
                      ELSE <<>>
                 ELSE <<NewNote(idCount, time, getRandomInt(0, 1, d), 0, "left"),
                        NewNote(idCount + 1, time + beatTime, getRandomInt(2, 3, d), 0, "right")>>
         IN pushed \o PatternLoopPairOneHand(i + 2, totalBeats, beatTime, offset,
                                             idCount + Len(pushed), d)

\* The pattern loop from beat i on: the notes pushed, in push order.
RECURSIVE PatternLoop(_, _, _, _, _, _)
PatternLoop(i, totalBeats, beatTime, offset, idCount, d) ==
    IF i >= totalBeats THEN <<>>
    ELSE LET time == offset + (i * beatTime)
             pattern == (i \div 16) % 3
             pushed ==
                 IF pattern = 0
                 THEN IF i % 4 = 0
                      THEN <<NewNote(idCount, time, getRandomInt(0, 1, d), 0, "left")>>
                      ELSE <<NewNote(idCount, time, getRandomInt(2, 3, d), 0, "right")>>
                 ELSE IF pattern = 1
                 THEN IF i % 8 = 0
                      THEN <<NewNote(idCount, time, 0, 1, "left"),
                             NewNote(idCount + 1, time, 3, 1, "right")>>
                      ELSE <<>>
                 ELSE <<NewNote(idCount, time, getRandomInt(0, 1, d), 0, "left"),
                        NewNote(idCount + 1, time + beatTime, getRandomInt(2, 3, d), 0, "right")>>
         IN pushed \o PatternLoop(i + 2, totalBeats, beatTime, offset,
                                  idCount + Len(pushed), d)

\* A sort whose comparator is (a, b) => b.time - a.time.
SortByTimeDescending(notes) ==
    LET rank == [j \in DOMAIN notes |->
                    Cardinality({i \in DOMAIN notes :
                                    \/ notes[i].time > notes[j].time
                                    \/ notes[i].time = notes[j].time /\ i < j}) + 1]
    IN [r \in DOMAIN notes |-> notes[CHOOSE j \in DOMAIN notes : rank[j] = r]]

\* notes.sort((a, b) => a.time - b.time): Array.prototype.sort is stable, so
\* a note's place is one more than the number of notes with a smaller time
\* or with the same time and an earlier push.
SortByTime(notes) ==
    LET rank == [j \in DOMAIN notes |->
                    Cardinality({i \in DOMAIN notes :
                                    \/ notes[i].time < notes[j].time
                                    \/ notes[i].time = notes[j].time /\ i < j}) + 1]
    IN [r \in DOMAIN notes |-> notes[CHOOSE j \in DOMAIN notes : rank[j] = r]]


\* A generator that treats a negative offset as 0.
generateChartClampedOffset(bpm, offset, durationSeconds, d) ==
    LET beatTime == 60000 \div bpm
        totalBeats == ((durationSeconds * bpm) + 59) \div 60
    IN SortByTime(PatternLoop(4, totalBeats, beatTime,
                              IF offset < 0 THEN 0 ELSE offset, 0, d))

\* A generator whose loop starts at beat 0, without the lead-in.
generateChartNoLeadIn(bpm, offset, durationSeconds, d) ==
    LET beatTime == 60000 \div bpm
        totalBeats == ((durationSeconds * bpm) + 59) \div 60
    IN SortByTime(PatternLoop(0, totalBeats, beatTime, offset, 0, d))

\* generateChart(bpm, offset, durationSeconds) with the lane draws d.
generateChart(bpm, offset, durationSeconds, d) ==
    LET beatTime == 60000 \div bpm
        totalBeats == ((durationSeconds * bpm) + 59) \div 60
    IN SortByTime(PatternLoop(4, totalBeats, beatTime, offset, 0, d))

\* App's effect on activeSong: setActiveChart(generateChart(bpm, offset || 0)).
ChartOf(songIndex, d) ==
    generateChart(Songs[songIndex].bpm, Songs[songIndex].offset, ChartSeconds, d)

----------------------------------------------------------------------------
(* GameScene: the useFrame callback (src/unnamed/part_000).                *)

Abs(x) == IF x < 0 THEN -x ELSE x

\* A lead time taken from the miss plane instead of the spawn plane.
spawnAheadFromMissZ == (Abs(MISS_Z - PLAYER_Z) * 1000) \div NOTE_SPEED

\* spawnAheadTime = Math.abs(SPAWN_Z - PLAYER_Z) / NOTE_SPEED, in ms.
spawnAheadTime == (Abs(SPAWN_Z - PLAYER_Z) * 1000) \div NOTE_SPEED

\* A spawn loop that pushes every admitted note twice.
RECURSIVE SpawnNotesTwice(_, _, _, _)
SpawnNotesTwice(notesState, nextNoteIndex, activeNotes, time) ==
    IF nextNoteIndex < Len(notesState)
    THEN IF notesState[nextNoteIndex + 1].time - spawnAheadTime <= time
         THEN SpawnNotesTwice(notesState, nextNoteIndex + 1,
                              Append(Append(activeNotes, nextNoteIndex + 1),
                                     nextNoteIndex + 1), time)
         ELSE [nextNoteIndex |-> nextNoteIndex, activeNotes |-> activeNotes]
    ELSE [nextNoteIndex |-> nextNoteIndex, activeNotes |-> activeNotes]

\* 1. Spawn Notes: the while loop over nextNoteIndexRef.
RECURSIVE SpawnNotes(_, _, _, _)
SpawnNotes(notesState, nextNoteIndex, activeNotes, time) ==
    IF nextNoteIndex < Len(notesState)
    THEN IF notesState[nextNoteIndex + 1].time - spawnAheadTime <= time
         THEN SpawnNotes(notesState, nextNoteIndex + 1,
                         Append(activeNotes, nextNoteIndex + 1), time)
         ELSE [nextNoteIndex |-> nextNoteIndex, activeNotes |-> activeNotes]
    ELSE [nextNoteIndex |-> nextNoteIndex, activeNotes |-> activeNotes]

\* A splice that removes nothing.
SpliceNothing(activeNotes, i) == activeNotes

\* activeNotesRef.current.splice(i, 1), i 0-based.
Splice(activeNotes, i) ==
    SubSeq(activeNotes, 1, i) \o SubSeq(activeNotes, i + 2, Len(activeNotes))

\* Lane and layer positions, in thousandths (LANE_WIDTH = 1.4).
LANE_X_POSITIONS == <<-2100, -700, 700, 2100>>
LAYER_Y_POSITIONS == <<800, 1600, 2400>>

NoHand == [present |-> FALSE, x |-> 0, y |-> 0, z |-> 0]
HandAt(lane, layer) ==
    [present |-> TRUE, x |-> LANE_X_POSITIONS[lane + 1],
     y |-> LAYER_Y_POSITIONS[layer + 1], z |-> PLAYER_Z * 1000]

\* The hand readings the model draws from: each hand absent, in front of the
\* outer left lane or in front of the outer right lane; the left hand moves
\* fast (2.0 units/s, a good cut), the right hand slowly (1.0, an ok cut).
HandSamples ==
    {[left |-> l, right |-> r, leftVelocity |-> 2000, rightVelocity |-> 1000] :
        l \in {NoHand, HandAt(0, 0), HandAt(3, 0)},
        r \in {NoHand, HandAt(0, 0), HandAt(3, 0)}}

\* handPos.distanceTo(notePos) < 0.9, squared.
WithinReach(handPos, x, y, z) ==
    ((handPos.x - x) * (handPos.x - x)) + ((handPos.y - y) * (handPos.y - y))
        + ((handPos.z - z) * (handPos.z - z)) < 900 * 900

\* currentZ = PLAYER_Z - (note.time - time) * NOTE_SPEED, in thousandths.
CurrentZ(note, time) == (PLAYER_Z * 1000) - ((note.time - time) * NOTE_SPEED)


\* A miss check that takes the player plane for the miss plane.
PassedPlayerAtPlayerPlane(currentZ) == currentZ > PLAYER_Z * 1000


\* A loop without the miss check: no note is ever past the player.
PassedPlayerNever(currentZ) == FALSE

\* A miss plane twice as far behind the player.
PassedPlayerLate(currentZ) == currentZ > 2 * MISS_Z * 1000

\* The miss check and the collision band.
PassedPlayer(currentZ) == currentZ > MISS_Z * 1000
NearPlayer(currentZ) ==
    currentZ > (PLAYER_Z * 1000) - 1500 /\ currentZ < (PLAYER_Z * 1000) + 1000

\* A collision check that accepts either hand.
CollidesEitherHand(note, currentZ, hands) ==
    \E handPos \in {hands.left, hands.right} :
       /\ handPos.present
       /\ WithinReach(handPos, LANE_X_POSITIONS[note.lineIndex + 1],
                      LAYER_Y_POSITIONS[note.lineLayer + 1], currentZ)

\* The collision check for a note in the band: the hand of the note's type,
\* present and within reach.  Every generated note has cutDirection ANY, so a
\* cut is good exactly when the hand's speed is at least 1.5.
Collides(note, currentZ, hands) ==
    LET handPos == IF note.type = "left" THEN hands.left ELSE hands.right
    IN /\ handPos.present
       /\ WithinReach(handPos, LANE_X_POSITIONS[note.lineIndex + 1],
                      LAYER_Y_POSITIONS[note.lineLayer + 1], currentZ)

GoodCut(note, hands) ==
    LET speed == IF note.type = "left" THEN hands.leftVelocity ELSE hands.rightVelocity
    IN ~(speed < 1500)

\* The loop body without the hit/missed guard and without the splice of a
\* hit note.
CollideNoteUnguarded(i, st, time, hands) ==
    LET n == st.activeNotes[i + 1]
        note == st.notes[n]
        currentZ == CurrentZ(note, time)
    IN IF PassedPlayer(currentZ)
       THEN [notes |-> [st.notes EXCEPT ![n].missed = TRUE],
             activeNotes |-> Splice(st.activeNotes, i),
             calls |-> Append(st.calls, [kind |-> "miss", note |-> n, goodCut |-> FALSE])]
       ELSE IF NearPlayer(currentZ) /\ Collides(note, currentZ, hands)
       THEN [notes |-> [st.notes EXCEPT ![n].hit = TRUE, ![n].hitTime = time],
             activeNotes |-> st.activeNotes,
             calls |-> Append(st.calls, [kind |-> "hit", note |-> n,
                                         goodCut |-> GoodCut(note, hands)])]
       ELSE st

\* 2. Update & Collide Notes: the body of the backward loop for index i
\* (0-based); st = [notes, activeNotes, calls].
CollideNote(i, st, time, hands) ==
    LET n == st.activeNotes[i + 1]
        note == st.notes[n]
        currentZ == CurrentZ(note, time)
    IN IF note.hit \/ note.missed THEN st
       ELSE IF PassedPlayer(currentZ)
       THEN [notes |-> [st.notes EXCEPT ![n].missed = TRUE],
             activeNotes |-> Splice(st.activeNotes, i),
             calls |-> Append(st.calls, [kind |-> "miss", note |-> n, goodCut |-> FALSE])]
       ELSE IF NearPlayer(currentZ) /\ Collides(note, currentZ, hands)
       THEN [notes |-> [st.notes EXCEPT ![n].hit = TRUE, ![n].hitTime = time],
             activeNotes |-> Splice(st.activeNotes, i),
             calls |-> Append(st.calls, [kind |-> "hit", note |-> n,
                                         goodCut |-> GoodCut(note, hands)])]
       ELSE st


\* A loop that walks the active notes forwards while it splices:
\* for (let i = 0; i < activeNotesRef.current.length; i++).
RECURSIVE CollideLoopForwardFrom(_, _, _, _)
CollideLoopForwardFrom(j, st, time, hands) ==
    IF j >= Len(st.activeNotes) THEN st
    ELSE CollideLoopForwardFrom(j + 1, CollideNote(j, st, time, hands), time, hands)

CollideLoopForward(i, st, time, hands) == CollideLoopForwardFrom(0, st, time, hands)

\* for (let i = activeNotesRef.current.length - 1; i >= 0; i--)
RECURSIVE CollideLoop(_, _, _, _)
CollideLoop(i, st, time, hands) ==
    IF i < 0 THEN st
    ELSE CollideLoop(i - 1, CollideNote(i, st, time, hands), time, hands)


\* A frame that runs the collision loop over the notes already active and
\* admits new notes afterwards.
GameplayFrameSpawnLast(time, hands) ==
    LET st0 == [notes |-> activeChart, activeNotes |-> activeNotesRef, calls |-> <<>>]
        st == CollideLoop(Len(activeNotesRef) - 1, st0, time, hands)
        spawned == SpawnNotes(st.notes, nextNoteIndexRef, st.activeNotes, time)
    IN [nextNoteIndex |-> spawned.nextNoteIndex,
        pushed |-> SubSeq(spawned.activeNotes, Len(st.activeNotes) + 1,
                          Len(spawned.activeNotes)),
        notes |-> st.notes, activeNotes |-> spawned.activeNotes, calls |-> st.calls]

\* The gameplay part of one frame at audio time `time`.
GameplayFrame(time, hands) ==
    LET spawned == SpawnNotes(activeChart, nextNoteIndexRef, activeNotesRef, time)
        st0 == [notes |-> activeChart, activeNotes |-> spawned.activeNotes, calls |-> <<>>]
        st == CollideLoop(Len(spawned.activeNotes) - 1, st0, time, hands)
    IN [nextNoteIndex |-> spawned.nextNoteIndex,
        pushed |-> SubSeq(spawned.activeNotes, Len(activeNotesRef) + 1,
                          Len(spawned.activeNotes)),
        notes |-> st.notes, activeNotes |-> st.activeNotes, calls |-> st.calls]

----------------------------------------------------------------------------
(* History bookkeeping.                                                    *)

Step(kind) == [kind |-> kind, time |-> 0, calls |-> <<>>]

NewSession(n) ==
    [hitCalls |-> [k \in 1..n |-> 0], missCalls |-> [k \in 1..n |-> 0],
     events |-> 0, irregular |-> 0, misses |-> 0, defeats |-> 0]

RECURSIVE RecordCalls(_, _)
RecordCalls(s, calls) ==
    IF calls = <<>> THEN s
    ELSE LET c == Head(calls)
             s1 == IF c.kind = "hit"
                   THEN [s EXCEPT !.events = @ + 1,
                                  !.hitCalls = IF c.note \in DOMAIN @
                                               THEN [@ EXCEPT ![c.note] = @ + 1] ELSE @]
                   ELSE [s EXCEPT !.events = @ + 1,
                                  !.misses = @ + 1,
                                  !.missCalls = IF c.note \in DOMAIN @
                                                THEN [@ EXCEPT ![c.note] = @ + 1] ELSE @]
         IN RecordCalls(s1, Tail(calls))

\* The calls of a frame other than a single ok cut.
Irregular(calls) ==
    LET hits == {k \in 1..Len(calls) : calls[k].kind = "hit"}
    IN Cardinality({k \in hits : calls[k].goodCut})
          + (Len(calls) - Cardinality(hits))
          + (IF Cardinality(hits) > 1 THEN Cardinality(hits) - 1 ELSE 0)

RecordFrame(s, calls) ==
    [RecordCalls(s, calls) EXCEPT !.irregular = @ + Irregular(calls)]

----------------------------------------------------------------------------
(* App: the session state machine (src/App.tsx).                           *)

Init ==
    /\ gameStatus = "LOADING"
    /\ isCameraReady = FALSE
    /\ score = 0
    /\ combo = 0
    /\ multiplier = 1
    /\ health = 100
    /\ countdown = 0
    /\ isNoFailMode = FALSE
    /\ currentSongIndex = 0
    /\ \E d \in LaneDraws : activeChart = ChartOf(1, d)
    /\ activeNotesRef = <<>>
    /\ nextNoteIndexRef = 0
    /\ audio = [currentTime |-> 0, ended |-> FALSE, paused |-> TRUE]
    /\ playPending = FALSE
    /\ endGameTimers = 0
    /\ librarySongs = <<>>
    /\ songDB = <<>>
    /\ libraryOps = {[op |-> "load"]}
    /\ showUploadModal = FALSE
    /\ lastStep = Step("init")
    /\ session = NewSession(Len(activeChart))
    /\ pushCount = [k \in 1..Len(activeChart) |-> 0]

\* useMediaPipe reports the camera ready; the effect on [isCameraReady,
\* gameStatus] leaves LOADING, which mounts GameScene.
CameraReady ==
    /\ ~isCameraReady
    /\ isCameraReady' = TRUE
    /\ gameStatus' = IF gameStatus = "LOADING" THEN "IDLE" ELSE gameStatus
    /\ lastStep' = Step("other")
    /\ UNCHANGED <<appVars, sceneVars, countdown, isNoFailMode, currentSongIndex,
                   audio, playPending, endGameTimers, session, pushCount>>
    /\ UNCHANGED libVars

\* useMediaPipe reports the camera not ready any more while the menu shows.
CameraLost ==
    /\ gameStatus = "IDLE"
    /\ isCameraReady
    /\ isCameraReady' = FALSE
    /\ lastStep' = Step("other")
    /\ UNCHANGED <<gameStatus, appVars, sceneVars, countdown, isNoFailMode,
                   currentSongIndex, audio, playPending, endGameTimers, session,
                   pushCount>>
    /\ UNCHANGED libVars

\* A reset that clears the hit flags only.
ResetChartHitOnly(chart) ==
    [k \in 1..Len(chart) |-> [chart[k] EXCEPT !.hit = FALSE]]

\* activeChart.forEach(n => { n.hit = false; n.missed = false; })
ResetChart(chart) ==
    [k \in 1..Len(chart) |-> [chart[k] EXCEPT !.hit = FALSE, !.missed = FALSE]]

\* handleStartRequest, the START GAME button of the IDLE menu.
handleStartRequest ==
    IF ~isCameraReady
    THEN UNCHANGED <<score, combo, multiplier, health, activeChart, countdown,
                     gameStatus, session>>
    ELSE /\ score' = 0
         /\ combo' = 0
         /\ multiplier' = 1
         /\ health' = 100
         /\ activeChart' = ResetChart(activeChart)
         /\ countdown' = 4
         /\ gameStatus' = "COUNTDOWN"
         /\ session' = NewSession(Len(activeChart))

StartRequest ==
    /\ gameStatus = "IDLE"
    /\ ~showUploadModal
    /\ endGameTimers = 0
    /\ handleStartRequest
    /\ lastStep' = Step(IF isCameraReady THEN "start" ELSE "startIgnored")
    /\ UNCHANGED <<isCameraReady, isNoFailMode, currentSongIndex, activeNotesRef,
                   nextNoteIndexRef, audio, playPending, endGameTimers, pushCount>>
    /\ UNCHANGED libVars


\* A toggle that is offered in every phase.
ToggleNoFailAnyPhase ==
    /\ isNoFailMode' = ~isNoFailMode
    /\ lastStep' = Step("other")
    /\ UNCHANGED <<gameStatus, isCameraReady, appVars, sceneVars, countdown,
                   currentSongIndex, audio, playPending, endGameTimers, session,
                   pushCount>>
    /\ UNCHANGED libVars

\* The No Fail toggle of the IDLE menu.
ToggleNoFail ==
    /\ gameStatus = "IDLE"
    /\ ~showUploadModal
    /\ isNoFailMode' = ~isNoFailMode
    /\ lastStep' = Step("other")
    /\ UNCHANGED <<gameStatus, isCameraReady, appVars, sceneVars, countdown,
                   currentSongIndex, audio, playPending, endGameTimers, session,
                   pushCount>>
    /\ UNCHANGED libVars

\* playlist = [...SONG_LIST, ...librarySongs]: the built-in songs (ids -1,
\* -2, ...) followed by the library's songs.
playlist(lib) ==
    [i \in 1..(Len(Songs) + Len(lib)) |->
        IF i <= Len(Songs)
        THEN [id |-> 0 - i, bpm |-> Songs[i].bpm, offset |-> Songs[i].offset,
              isCustom |-> FALSE]
        ELSE [id |-> lib[i - Len(Songs)].id, bpm |-> lib[i - Len(Songs)].bpm,
              offset |-> lib[i - Len(Songs)].offset, isCustom |-> TRUE]]

\* activeSong = playlist[currentSongIndex] || SONG_LIST[0]
activeSong(lib, index) ==
    IF index + 1 \in DOMAIN playlist(lib) THEN playlist(lib)[index + 1]
    ELSE playlist(lib)[1]

\* The effect on [activeSong] (the audio source reloaded, a new chart) and
\* GameScene's effect on [chart] (cursor and active notes reset).
ActiveSongEffect(song, d) ==
    /\ activeChart' = generateChart(song.bpm, song.offset, ChartSeconds, d)
    /\ nextNoteIndexRef' = 0
    /\ activeNotesRef' = <<>>
    /\ audio' = [currentTime |-> 0, ended |-> FALSE, paused |-> TRUE]
    /\ session' = NewSession(Len(activeChart'))
    /\ pushCount' = [k \in 1..Len(activeChart') |-> 0]

\* switchSong(direction) of the IDLE menu, with the effects that follow when
\* activeSong is another song.
switchSong(direction, d) ==
    LET stepped == IF direction = "next" THEN currentSongIndex + 1 ELSE currentSongIndex - 1
        length == Len(playlist(librarySongs))
        newIndex == IF stepped >= length THEN 0
                    ELSE IF stepped < 0 THEN length - 1 ELSE stepped
    IN /\ currentSongIndex' = newIndex
       /\ IF activeSong(librarySongs, newIndex).id
                # activeSong(librarySongs, currentSongIndex).id
          THEN ActiveSongEffect(activeSong(librarySongs, newIndex), d)
          ELSE UNCHANGED <<sceneVars, audio, session, pushCount>>

SwitchSong ==
    /\ gameStatus = "IDLE"
    /\ ~showUploadModal
    /\ \E direction \in {"next", "prev"}, d \in LaneDraws : switchSong(direction, d)
    /\ lastStep' = Step("chart")
    /\ UNCHANGED <<gameStatus, isCameraReady, appVars, countdown, isNoFailMode,
                   playPending, endGameTimers>>
    /\ UNCHANGED libVars


\* A countdown effect whose render with countdown = 0 does not call
\* startGameplay.
CountdownTimerNoStart ==
    /\ gameStatus = "COUNTDOWN"
    /\ countdown > 0
    /\ countdown' = countdown - 1
    /\ lastStep' = Step("other")
    /\ UNCHANGED <<gameStatus, isCameraReady, appVars, sceneVars, isNoFailMode,
                   currentSongIndex, audio, playPending, endGameTimers, session,
                   pushCount>>
    /\ UNCHANGED libVars

\* The countdown effect: a one-second timer while countdown > 0; the render
\* with countdown = 0 calls startGameplay, which rewinds the audio and waits
\* for play().
CountdownTimer ==
    /\ gameStatus = "COUNTDOWN"
    /\ countdown > 0
    /\ countdown' = countdown - 1
    /\ IF countdown' = 0
       THEN /\ audio' = [audio EXCEPT !.currentTime = 0, !.ended = FALSE]
            /\ playPending' = TRUE
       ELSE UNCHANGED <<audio, playPending>>
    /\ lastStep' = Step("other")
    /\ UNCHANGED <<gameStatus, isCameraReady, appVars, sceneVars, isNoFailMode,
                   currentSongIndex, endGameTimers, session, pushCount>>
    /\ UNCHANGED libVars

\* startGameplay after `await audioRef.current.play()` resolved.
PlayResolved ==
    /\ playPending
    /\ playPending' = FALSE
    /\ audio' = [audio EXCEPT !.paused = FALSE]
    /\ gameStatus' = "PLAYING"
    /\ lastStep' = Step("other")
    /\ UNCHANGED <<isCameraReady, appVars, sceneVars, countdown, isNoFailMode,
                   currentSongIndex, endGameTimers, session, pushCount>>
    /\ UNCHANGED libVars

\* A catch branch that goes on to PLAYING.
PlayRejectedIntoPlaying ==
    /\ playPending
    /\ playPending' = FALSE
    /\ gameStatus' = "PLAYING"
    /\ lastStep' = Step("playFailed")
    /\ UNCHANGED <<isCameraReady, appVars, sceneVars, countdown, isNoFailMode,
                   currentSongIndex, audio, endGameTimers, session, pushCount>>
    /\ UNCHANGED libVars

\* startGameplay's catch: play() rejected.
PlayRejected ==
    /\ playPending
    /\ playPending' = FALSE
    /\ gameStatus' = "IDLE"
    /\ lastStep' = Step("playFailed")
    /\ UNCHANGED <<isCameraReady, appVars, sceneVars, countdown, isNoFailMode,
                   currentSongIndex, audio, endGameTimers, session, pushCount>>
    /\ UNCHANGED libVars

\* endGame(victory)
endGame(victory) ==
    /\ gameStatus' = IF victory THEN "VICTORY" ELSE "GAME_OVER"
    /\ audio' = [audio EXCEPT !.paused = TRUE]

\* A pending setTimeout(() => endGame(false), 0) fires.
EndGameTimer ==
    /\ endGameTimers > 0
    /\ endGameTimers' = endGameTimers - 1
    /\ endGame(FALSE)
    /\ lastStep' = Step("other")
    /\ UNCHANGED <<isCameraReady, appVars, sceneVars, countdown, isNoFailMode,
                   currentSongIndex, playPending, session, pushCount>>
    /\ UNCHANGED libVars

\* The Replay / Select Song button of the result screen.
Replay ==
    /\ gameStatus \in {"GAME_OVER", "VICTORY"}
    /\ endGameTimers = 0
    /\ gameStatus' = "IDLE"
    /\ lastStep' = Step("other")
    /\ UNCHANGED <<isCameraReady, appVars, sceneVars, countdown, isNoFailMode,
                   currentSongIndex, audio, playPending, endGameTimers, session,
                   pushCount>>
    /\ UNCHANGED libVars

----------------------------------------------------------------------------
(* Frames.                                                                 *)

\* The track ends at the last grid point: the audio reports `ended` there
\* and not before.
TrackLength == MaxTick * TickStep

\* The audio clock values a frame may read next.
FrameTimes ==
    {t \in {k * TickStep : k \in 0..MaxTick} :
        t >= audio.currentTime /\ t <= audio.currentTime + (MaxJump * TickStep)}


\* A frame outside PLAYING that does not return early: the gameplay logic
\* runs at the audio's current time.
FrameIdleRunsGameplay ==
    /\ gameStatus \notin {"LOADING", "PLAYING"}
    /\ endGameTimers <= MaxEndGameTimers
    /\ \E hands \in HandSamples, eager \in BOOLEAN :
          LET f == GameplayFrame(audio.currentTime, hands)
          IN /\ nextNoteIndexRef' = f.nextNoteIndex
             /\ activeNotesRef' = f.activeNotes
             /\ activeChart' = f.notes
             /\ CommitUpdates(DispatchCalls(NoUpdates, f.calls, eager))
             /\ lastStep' = [kind |-> "played", time |-> audio.currentTime,
                             calls |-> f.calls]
             /\ session' = [RecordFrame(session, f.calls) EXCEPT
                                !.defeats = @ + (endGameTimers' - endGameTimers)]
             /\ pushCount' = [k \in DOMAIN pushCount |->
                                 pushCount[k]
                                    + Cardinality({i \in DOMAIN f.pushed : f.pushed[i] = k})]
    /\ UNCHANGED <<gameStatus, isCameraReady, countdown, isNoFailMode,
                   currentSongIndex, audio, playPending>>
    /\ UNCHANGED libVars

\* A frame outside PLAYING returns before the gameplay logic.
FrameIdle ==
    /\ gameStatus \notin {"LOADING", "PLAYING"}
    /\ UNCHANGED vars

\* A frame that finds the audio ended: onSongEnd() and return.
FrameSongEnd ==
    /\ gameStatus = "PLAYING"
    /\ endGameTimers <= MaxEndGameTimers
    /\ \E t \in FrameTimes :
          /\ t = TrackLength
          /\ gameStatus' = "VICTORY"
          /\ audio' = [currentTime |-> t, ended |-> TRUE, paused |-> TRUE]
          /\ lastStep' = [kind |-> "ended", time |-> t, calls |-> <<>>]
    /\ UNCHANGED <<isCameraReady, appVars, sceneVars, countdown, isNoFailMode,
                   currentSongIndex, playPending, endGameTimers, session, pushCount>>
    /\ UNCHANGED libVars

\* A frame that runs the gameplay logic, and the render of its updates.
FramePlay ==
    /\ gameStatus = "PLAYING"
    /\ endGameTimers <= MaxEndGameTimers
    /\ \E t \in FrameTimes, hands \in HandSamples, eager \in BOOLEAN :
          LET f == GameplayFrame(t, hands)
          IN /\ t < TrackLength
             /\ audio' = [audio EXCEPT !.currentTime = t]
             /\ nextNoteIndexRef' = f.nextNoteIndex
             /\ activeNotesRef' = f.activeNotes
             /\ activeChart' = f.notes
             /\ CommitUpdates(DispatchCalls(NoUpdates, f.calls, eager))
             /\ lastStep' = [kind |-> "played", time |-> t, calls |-> f.calls]
             /\ session' = [RecordFrame(session, f.calls) EXCEPT
                                !.defeats = @ + (endGameTimers' - endGameTimers)]
             /\ pushCount' = [k \in DOMAIN pushCount |->
                                 pushCount[k]
                                    + Cardinality({i \in DOMAIN f.pushed : f.pushed[i] = k})]
    /\ UNCHANGED <<gameStatus, isCameraReady, countdown, isNoFailMode,
                   currentSongIndex, playPending>>
    /\ UNCHANGED libVars

Next ==
    \/ CameraReady
    \/ CameraLost
    \/ StartRequest
    \/ ToggleNoFail
    \/ SwitchSong
    \/ CountdownTimer
    \/ PlayResolved
    \/ PlayRejected
    \/ EndGameTimer
    \/ Replay
    \/ FrameIdle
    \/ FrameSongEnd
    \/ FramePlay

Spec == Init /\ [][Next]_vars

----------------------------------------------------------------------------
(* The scoring handlers alone, driven by the calls a frame can make.       *)
(* The backward loop visits later notes first, and a note is past the miss *)
(* plane only if every earlier active note is: the calls of one frame are  *)
(* hits followed by misses.                                                *)

HitBatches ==
    UNION {[1..n -> BOOLEAN] : n \in 0..(MaxIrregular + 1)}

CallsOf(hits, misses) ==
    [k \in 1..Len(hits) |-> [kind |-> "hit", note |-> 0, goodCut |-> hits[k]]]
        \o [k \in 1..misses |-> [kind |-> "miss", note |-> 0, goodCut |-> FALSE]]

ScoreFrame ==
    /\ gameStatus = "PLAYING"
    /\ endGameTimers <= MaxEndGameTimers
    /\ \E hits \in HitBatches, misses \in 0..MaxIrregular, eager \in BOOLEAN :
          LET calls == CallsOf(hits, misses)
              recorded == RecordFrame(session, calls)
          IN /\ calls # <<>>
             /\ recorded.events <= MaxSessionEvents
             /\ recorded.irregular <= MaxIrregular
             /\ CommitUpdates(DispatchCalls(NoUpdates, calls, eager))
             /\ lastStep' = [kind |-> "played", time |-> audio.currentTime, calls |-> calls]
             /\ session' = [recorded EXCEPT
                                !.defeats = @ + (endGameTimers' - endGameTimers)]
    /\ UNCHANGED <<gameStatus, isCameraReady, sceneVars, countdown, isNoFailMode,
                   currentSongIndex, audio, playPending, pushCount>>
    /\ UNCHANGED libVars

\* The frame that finds the audio ended; the audio clock is not followed here.
ScoreSongEnd ==
    /\ gameStatus = "PLAYING"
    /\ gameStatus' = "VICTORY"
    /\ audio' = [currentTime |-> TrackLength, ended |-> TRUE, paused |-> TRUE]
    /\ lastStep' = [kind |-> "ended", time |-> TrackLength, calls |-> <<>>]
    /\ UNCHANGED <<isCameraReady, appVars, sceneVars, countdown, isNoFailMode,
                   currentSongIndex, playPending, endGameTimers, session, pushCount>>
    /\ UNCHANGED libVars

NextScore ==
    \/ CameraReady
    \/ StartRequest
    \/ ToggleNoFail
    \/ CountdownTimer
    \/ PlayResolved
    \/ Replay
    \/ ScoreSongEnd
    \/ ScoreFrame

SpecScore == Init /\ [][NextScore]_vars

----------------------------------------------------------------------------
(* The health handlers, driven by short sessions with many misses.         *)

MaxHealthEvents == 9      \* SpecHealth: hit and miss calls in one session
MaxBatchMisses == 2       \* SpecHealth: misses in one frame

HealthFrame ==
    /\ gameStatus = "PLAYING"
    /\ endGameTimers <= MaxEndGameTimers
    /\ \E hits \in UNION {[1..n -> BOOLEAN] : n \in 0..1},
          misses \in 0..MaxBatchMisses, eager \in BOOLEAN :
          LET calls == CallsOf(hits, misses)
              recorded == RecordFrame(session, calls)
          IN /\ calls # <<>>
             /\ recorded.events <= MaxHealthEvents
             /\ CommitUpdates(DispatchCalls(NoUpdates, calls, eager))
             /\ lastStep' = [kind |-> "played", time |-> audio.currentTime, calls |-> calls]
             /\ session' = [recorded EXCEPT
                                !.defeats = @ + (endGameTimers' - endGameTimers)]
    /\ UNCHANGED <<gameStatus, isCameraReady, sceneVars, countdown, isNoFailMode,
                   currentSongIndex, audio, playPending, pushCount>>
    /\ UNCHANGED libVars

NextHealth ==
    \/ CameraReady
    \/ StartRequest
    \/ ToggleNoFail
    \/ CountdownTimer
    \/ PlayResolved
    \/ EndGameTimer
    \/ Replay
    \/ ScoreSongEnd
    \/ HealthFrame

SpecHealth == Init /\ [][NextHealth]_vars

----------------------------------------------------------------------------
(* The collision check alone: the frames of the first second and a half of *)
(* a first session, on a fine time grid and with hands in front of and     *)
(* behind the player plane.                                                *)

HandTickStep == 50        \* SpecHands: the grid of the audio clock, in ms
MaxHandTick == 26         \* SpecHands: the last grid point a frame reads
MaxHandJump == 3          \* SpecHands: grid steps between two frames

\* A hand in front of a lane on the low layer, at depth z.
HandAtDepth(lane, z) ==
    [present |-> TRUE, x |-> LANE_X_POSITIONS[lane + 1],
     y |-> LAYER_Y_POSITIONS[1], z |-> z]

HandProbes ==
    {[left |-> l, right |-> r, leftVelocity |-> 2000, rightVelocity |-> 1000] :
        l \in {NoHand, HandAt(0, 0), HandAt(3, 0), HandAtDepth(0, 1200)},
        r \in {NoHand, HandAt(0, 0), HandAt(3, 0), HandAtDepth(3, -1200)}}

\* The state in which play() has resolved for the first start request.
InitHands ==
    /\ gameStatus = "PLAYING"
    /\ isCameraReady = TRUE
    /\ score = 0
    /\ combo = 0
    /\ multiplier = 1
    /\ health = 100
    /\ countdown = 0
    /\ isNoFailMode = FALSE
    /\ currentSongIndex = 0
    /\ \E d \in LaneDraws : activeChart = ChartOf(1, d)
    /\ activeNotesRef = <<>>
    /\ nextNoteIndexRef = 0
    /\ audio = [currentTime |-> 0, ended |-> FALSE, paused |-> FALSE]
    /\ playPending = FALSE
    /\ endGameTimers = 0
    /\ librarySongs = <<>>
    /\ songDB = <<>>
    /\ libraryOps = {}
    /\ showUploadModal = FALSE
    /\ lastStep = Step("other")
    /\ session = NewSession(Len(activeChart))
    /\ pushCount = [k \in 1..Len(activeChart) |-> 0]

\* A gameplay frame, with the hand readings it used kept in lastStep.
FrameHands ==
    /\ gameStatus = "PLAYING"
    /\ \E k \in 0..MaxHandTick, hands \in HandProbes :
          LET t == k * HandTickStep
              f == GameplayFrame(t, hands)
          IN /\ t >= audio.currentTime
             /\ t <= audio.currentTime + (MaxHandJump * HandTickStep)
             /\ audio' = [audio EXCEPT !.currentTime = t]
             /\ nextNoteIndexRef' = f.nextNoteIndex
             /\ activeNotesRef' = f.activeNotes
             /\ activeChart' = f.notes
             /\ CommitUpdates(DispatchCalls(NoUpdates, f.calls, FALSE))
             /\ lastStep' = [kind |-> "played", time |-> t, calls |-> f.calls,
                             hands |-> hands]
             /\ session' = [RecordFrame(session, f.calls) EXCEPT
                                !.defeats = @ + (endGameTimers' - endGameTimers)]
             /\ pushCount' = [n \in DOMAIN pushCount |->
                                 pushCount[n]
                                    + Cardinality({i \in DOMAIN f.pushed : f.pushed[i] = n})]
    /\ UNCHANGED <<gameStatus, isCameraReady, countdown, isNoFailMode,
                   currentSongIndex, playPending>>
    /\ UNCHANGED libVars

SpecHands == InitHands /\ [][FrameHands]_vars

----------------------------------------------------------------------------
(* The order of the steps inside one frame: the frames of a first session  *)
(* on the coarse grid, any distance apart (the audio clock may have moved  *)
(* by seconds between two frames), so that a frame can admit a note that   *)
(* is already in the band or already behind the miss plane.                *)

\* A gameplay frame, with the hand readings it used and the notes it pushed
\* kept in lastStep, and whether it read the clock value and the hands of the
\* frame before it.
FrameOrder ==
    /\ gameStatus = "PLAYING"
    /\ \E k \in 0..(MaxTick - 1), hands \in HandSamples :
          LET t == k * TickStep
              f == GameplayFrame(t, hands)
          IN /\ t >= audio.currentTime
             /\ audio' = [audio EXCEPT !.currentTime = t]
             /\ nextNoteIndexRef' = f.nextNoteIndex
             /\ activeNotesRef' = f.activeNotes
             /\ activeChart' = f.notes
             /\ CommitUpdates(DispatchCalls(NoUpdates, f.calls, FALSE))
             /\ lastStep' = [kind |-> "played", time |-> t, calls |-> f.calls,
                             hands |-> hands, pushed |-> f.pushed,
                             repeated |-> /\ lastStep.kind = "played"
                                          /\ lastStep.time = t
                                          /\ lastStep.hands = hands]
             /\ session' = [RecordFrame(session, f.calls) EXCEPT
                                !.defeats = @ + (endGameTimers' - endGameTimers)]
             /\ pushCount' = [n \in DOMAIN pushCount |->
                                 pushCount[n]
                                    + Cardinality({i \in DOMAIN f.pushed : f.pushed[i] = n})]
    /\ UNCHANGED <<gameStatus, isCameraReady, countdown, isNoFailMode,
                   currentSongIndex, playPending>>
    /\ UNCHANGED libVars

SpecOrder == InitHands /\ [][FrameOrder]_vars

----------------------------------------------------------------------------
(* generateChart alone: the function applied once to parameters drawn from *)
(* a sample that reaches every pattern of the loop (beats 4..15 and 48..63 *)
(* single notes, 16..31 pairs, 32..47 streams), negative and positive      *)
(* offsets, and a bpm and durations for which no beat exists.  Beat times  *)
(* are whole milliseconds for every bpm of the sample, so the arithmetic   *)
(* of the model is exact; with bpm = 0 the code's 60 / bpm is Infinity,    *)
(* which no note uses because totalBeats is 0.                             *)

MaxChartSeconds == 60     \* SpecChart: durationSeconds ranges over 0..MaxChartSeconds
ChartBpms == {-60, 0, 60, 100, 120}
ChartOffsets == {-250, 0, 500}

\* The parameters of one call, before the call.
InitChart ==
    /\ gameStatus = "LOADING"
    /\ isCameraReady = FALSE
    /\ score = 0
    /\ combo = 0
    /\ multiplier = 1
    /\ health = 100
    /\ countdown = 0
    /\ isNoFailMode = FALSE
    /\ currentSongIndex = 0
    /\ activeChart = <<>>
    /\ activeNotesRef = <<>>
    /\ nextNoteIndexRef = 0
    /\ audio = [currentTime |-> 0, ended |-> FALSE, paused |-> TRUE]
    /\ playPending = FALSE
    /\ endGameTimers = 0
    /\ librarySongs = <<>>
    /\ songDB = <<>>
    /\ libraryOps = {[op |-> "load"]}
    /\ showUploadModal = FALSE
    /\ \E bpm \in ChartBpms, offset \in ChartOffsets,
          durationSeconds \in 0..MaxChartSeconds, d \in LaneDraws :
          lastStep = [kind |-> "parameters", time |-> 0, calls |-> <<>>,
                      bpm |-> bpm, offset |-> offset,
                      durationSeconds |-> durationSeconds, d |-> d]
    /\ session = NewSession(0)
    /\ pushCount = <<>>

\* setActiveChart(generateChart(bpm, offset, durationSeconds)): the function
\* has no throw statement and no parameter check, so every call returns.
GenerateChart ==
    /\ lastStep.kind = "parameters"
    /\ activeChart' = generateChart(lastStep.bpm, lastStep.offset,
                                    lastStep.durationSeconds, lastStep.d)
    /\ lastStep' = [lastStep EXCEPT !.kind = "returned"]
    /\ session' = NewSession(Len(activeChart'))
    /\ pushCount' = [k \in 1..Len(activeChart') |-> 0]
    /\ UNCHANGED <<gameStatus, isCameraReady, appVars, countdown, isNoFailMode,
                   currentSongIndex, activeNotesRef, nextNoteIndexRef, audio,
                   playPending, endGameTimers>>
    /\ UNCHANGED libVars

SpecChart == InitChart /\ [][GenerateChart]_vars

----------------------------------------------------------------------------
(* The song library (src/App.tsx, src/utils/db.ts): the startup load, the  *)
(* upload modal and the removal of a custom song.  An async handler is a   *)
(* step that suspends it at its first await and a step for the rest of it, *)
(* which runs when the store's transactions have completed.                *)

MaxSongId == 2            \* SpecLibrary: the last id a saved song gets
MaxLibraryOps == 2        \* SpecLibrary: handlers suspended at the same time

\* The (bpm, offset) pairs a user confirms in the modal (bpm in 40..300).
CustomSongs == {[bpm |-> 100, offset |-> -100], [bpm |-> 120, offset |-> 0]}

\* The songs the store may hold from an earlier visit.
StoredBefore == {<<>>, <<[id |-> 1, bpm |-> 120, offset |-> 0]>>}

InitLibrary ==
    /\ gameStatus = "LOADING"
    /\ isCameraReady = FALSE
    /\ score = 0
    /\ combo = 0
    /\ multiplier = 1
    /\ health = 100
    /\ countdown = 0
    /\ isNoFailMode = FALSE
    /\ currentSongIndex = 0
    /\ \E d \in LaneDraws : activeChart = ChartOf(1, d)
    /\ activeNotesRef = <<>>
    /\ nextNoteIndexRef = 0
    /\ audio = [currentTime |-> 0, ended |-> FALSE, paused |-> TRUE]
    /\ playPending = FALSE
    /\ endGameTimers = 0
    /\ librarySongs = <<>>
    /\ songDB \in StoredBefore
    /\ libraryOps = {[op |-> "load"]}
    /\ showUploadModal = FALSE
    /\ lastStep = Step("init")
    /\ session = NewSession(Len(activeChart))
    /\ pushCount = [k \in 1..Len(activeChart) |-> 0]

\* `custom-${Date.now()}`: an id later than every id stored or being saved.
NextSongId ==
    LET used == {songDB[i].id : i \in DOMAIN songDB}
                   \cup {o.song.id : o \in {x \in libraryOps : x.op = "save"}}
    IN IF used = {} THEN 1 ELSE 1 + (CHOOSE n \in used : \A k \in used : k <= n)

\* setLibrarySongs(newLib) with objects just made by getAllSongsFromDB, and
\* setCurrentSongIndex(newIndex), followed by the render and its effects:
\* activeSong is another object when it is another song or a custom song.
LibraryUpdate(newLib, newIndex, d) ==
    /\ librarySongs' = newLib
    /\ currentSongIndex' = newIndex
    /\ IF \/ activeSong(newLib, newIndex).isCustom
          \/ activeSong(newLib, newIndex).id # activeSong(librarySongs, currentSongIndex).id
       THEN ActiveSongEffect(activeSong(newLib, newIndex), d)
       ELSE UNCHANGED <<sceneVars, audio, session, pushCount>>

\* loadLibrary after `await getAllSongsFromDB()`.
LoadLibraryResolved ==
    /\ [op |-> "load"] \in libraryOps
    /\ libraryOps' = libraryOps \ {[op |-> "load"]}
    /\ \E d \in LaneDraws : LibraryUpdate(songDB, currentSongIndex, d)
    /\ lastStep' = Step("library")
    /\ UNCHANGED <<gameStatus, isCameraReady, appVars, countdown, isNoFailMode,
                   playPending, endGameTimers, songDB, showUploadModal>>

\* handleFileSelect: the Add to Library button of the IDLE menu and a file
\* chosen.
handleFileSelect ==
    /\ gameStatus = "IDLE"
    /\ ~showUploadModal
    /\ showUploadModal' = TRUE
    /\ lastStep' = Step("other")
    /\ UNCHANGED <<gameStatus, isCameraReady, appVars, sceneVars, countdown,
                   isNoFailMode, currentSongIndex, audio, playPending, endGameTimers,
                   librarySongs, songDB, libraryOps, session, pushCount>>

\* The X button of the modal: setShowUploadModal(false).
CloseUploadModal ==
    /\ showUploadModal
    /\ showUploadModal' = FALSE
    /\ lastStep' = Step("other")
    /\ UNCHANGED <<gameStatus, isCameraReady, appVars, sceneVars, countdown,
                   isNoFailMode, currentSongIndex, audio, playPending, endGameTimers,
                   librarySongs, songDB, libraryOps, session, pushCount>>

\* confirmCustomSong up to `await saveSongToDB(newSong, tempFile)`.
confirmCustomSong ==
    /\ showUploadModal
    /\ Cardinality(libraryOps) < MaxLibraryOps
    /\ NextSongId <= MaxSongId
    /\ \E s \in CustomSongs :
          libraryOps' = libraryOps \cup
             {[op |-> "save", song |-> [id |-> NextSongId, bpm |-> s.bpm,
                                        offset |-> s.offset]]}
    /\ lastStep' = Step("other")
    /\ UNCHANGED <<gameStatus, isCameraReady, appVars, sceneVars, countdown,
                   isNoFailMode, currentSongIndex, audio, playPending, endGameTimers,
                   librarySongs, songDB, showUploadModal, session, pushCount>>

\* confirmCustomSong after the song is stored and the library read again.
SaveResolved ==
    /\ \E o \in libraryOps, d \in LaneDraws :
          /\ o.op = "save"
          /\ libraryOps' = libraryOps \ {o}
          /\ songDB' = Append(songDB, o.song)
          /\ LibraryUpdate(songDB', Len(Songs) + Len(songDB') - 1, d)
    /\ showUploadModal' = FALSE
    /\ lastStep' = Step("library")
    /\ UNCHANGED <<gameStatus, isCameraReady, appVars, countdown, isNoFailMode,
                   playPending, endGameTimers>>

\* confirmCustomSong's catch: the store rejected the song.
SaveRejected ==
    /\ \E o \in libraryOps :
          /\ o.op = "save"
          /\ libraryOps' = libraryOps \ {o}
    /\ lastStep' = Step("other")
    /\ UNCHANGED <<gameStatus, isCameraReady, appVars, sceneVars, countdown,
                   isNoFailMode, currentSongIndex, audio, playPending, endGameTimers,
                   librarySongs, songDB, showUploadModal, session, pushCount>>

\* deleteCurrentSong, the Delete button of the IDLE menu, confirmed, up to
\* `await deleteSongFromDB(activeSong.id)`.
deleteCurrentSong ==
    /\ gameStatus = "IDLE"
    /\ ~showUploadModal
    /\ activeSong(librarySongs, currentSongIndex).isCustom
    /\ Cardinality(libraryOps) < MaxLibraryOps
    /\ libraryOps' = libraryOps \cup
          {[op |-> "delete", id |-> activeSong(librarySongs, currentSongIndex).id]}
    /\ lastStep' = Step("other")
    /\ UNCHANGED <<gameStatus, isCameraReady, appVars, sceneVars, countdown,
                   isNoFailMode, currentSongIndex, audio, playPending, endGameTimers,
                   librarySongs, songDB, showUploadModal, session, pushCount>>

\* deleteCurrentSong after the song is removed and the library read again.
DeleteResolved ==
    /\ \E o \in libraryOps, d \in LaneDraws :
          /\ o.op = "delete"
          /\ libraryOps' = libraryOps \ {o}
          /\ songDB' = SelectSeq(songDB, LAMBDA s : s.id # o.id)
          /\ LibraryUpdate(songDB', 0, d)
    /\ lastStep' = Step("library")
    /\ UNCHANGED <<gameStatus, isCameraReady, appVars, countdown, isNoFailMode,
                   playPending, endGameTimers, showUploadModal>>

NextLibrary ==
    \/ CameraReady
    \/ StartRequest
    \/ SwitchSong
    \/ CountdownTimer
    \/ PlayResolved
    \/ PlayRejected
    \/ LoadLibraryResolved
    \/ handleFileSelect
    \/ CloseUploadModal
    \/ confirmCustomSong
    \/ SaveResolved
    \/ SaveRejected
    \/ deleteCurrentSong
    \/ DeleteResolved

SpecLibrary == InitLibrary /\ [][NextLibrary]_vars


----------------------------------------------------------------------------
(* The start of a session alone: menu, upload modal (which hides the menu *)
(* and its START GAME button), countdown and startGameplay. The timer      *)
(* armed by the countdown effect is cleared only when the effect runs      *)
(* again, so it fires while the phase is COUNTDOWN and countdown > 0; the  *)
(* promise returned by play() settles.                                     *)

NextCountdown ==
    \/ CameraReady
    \/ CameraLost
    \/ StartRequest
    \/ ToggleNoFail
    \/ SwitchSong
    \/ handleFileSelect
    \/ CloseUploadModal
    \/ CountdownTimer
    \/ PlayResolved
    \/ PlayRejected

SpecCountdown ==
    /\ Init
    /\ [][NextCountdown]_vars
    /\ WF_vars(CountdownTimer)
    /\ WF_vars(PlayResolved \/ PlayRejected)


----------------------------------------------------------------------------
(* One session on a track longer than the window modelled: the audio never *)
(* reports `ended`, every frame runs the gameplay logic, and the clock a   *)
(* playing audio element reports keeps advancing. A pending                *)
(* setTimeout(() => endGame(false), 0) fires.                              *)

\* The clock values a frame may read next on the long track: the grid goes
\* on to the first point at which the last note of the chart is behind the
\* miss plane.
LongTrackTimes ==
    LET lastPoint == ((activeChart[Len(activeChart)].time + 500) \div TickStep) + 1
    IN {t \in {k * TickStep : k \in 0..lastPoint} :
           t >= audio.currentTime /\ t <= audio.currentTime + (MaxJump * TickStep)}

\* A gameplay frame at a clock value the audio reports next.
FrameLongTrack ==
    /\ gameStatus = "PLAYING"
    /\ endGameTimers <= MaxEndGameTimers
    /\ \E t \in LongTrackTimes, hands \in HandSamples, eager \in BOOLEAN :
          LET f == GameplayFrame(t, hands)
          IN /\ audio' = [audio EXCEPT !.currentTime = t]
             /\ nextNoteIndexRef' = f.nextNoteIndex
             /\ activeNotesRef' = f.activeNotes
             /\ activeChart' = f.notes
             /\ CommitUpdates(DispatchCalls(NoUpdates, f.calls, eager))
             /\ lastStep' = [kind |-> "played", time |-> t, calls |-> f.calls]
             /\ session' = [RecordFrame(session, f.calls) EXCEPT
                                !.defeats = @ + (endGameTimers' - endGameTimers)]
             /\ pushCount' = [k \in DOMAIN pushCount |->
                                 pushCount[k]
                                    + Cardinality({i \in DOMAIN f.pushed : f.pushed[i] = k})]
    /\ UNCHANGED <<gameStatus, isCameraReady, countdown, isNoFailMode,
                   currentSongIndex, playPending>>
    /\ UNCHANGED libVars

\* A frame that reads a later clock value than the frame before it.
FrameAdvance ==
    /\ FrameLongTrack
    /\ audio'.currentTime > audio.currentTime

\* ENABLED <<FrameAdvance>>_vars, computed from the guard of FrameLongTrack:
\* the rest of the action is assignments.
CanAdvance ==
    /\ gameStatus = "PLAYING"
    /\ endGameTimers <= MaxEndGameTimers
    /\ \E t \in LongTrackTimes : t > audio.currentTime

\* WF_vars(FrameAdvance), written out with CanAdvance for the ENABLED.
ClockKeepsAdvancing ==
    \/ []<>(~CanAdvance)
    \/ []<><<FrameAdvance>>_vars

NextAdvance ==
    \/ FrameLongTrack
    \/ EndGameTimer

SpecAdvance ==
    /\ InitHands
    /\ [][NextAdvance]_vars
    /\ ClockKeepsAdvancing
    /\ WF_vars(EndGameTimer)

----------------------------------------------------------------------------
(* Properties.                                                             *)

\* A step that starts a session or replaces the chart.
StartsSession == lastStep'.kind \in {"start", "chart"}

\* C1: within one session no note has both hit and missed set, and a flag a
\* frame has set is not cleared or changed by a later step of that session
\* (a hit note stays hit with its hitTime and never becomes missed, a missed
\* note stays missed and never becomes hit).
C1_FlagsAreFinal ==
    [][/\ \A k \in DOMAIN activeChart' :
             ~(activeChart'[k].hit /\ activeChart'[k].missed)
       /\ ~StartsSession =>
             \A k \in DOMAIN activeChart :
                /\ activeChart[k].hit =>
                      /\ activeChart'[k].hit
                      /\ ~activeChart'[k].missed
                      /\ activeChart'[k].hitTime = activeChart[k].hitTime
                /\ activeChart[k].missed =>
                      /\ activeChart'[k].missed
                      /\ ~activeChart'[k].hit]_vars

\* A frame ran after an earlier frame hit one note and another note is missed.
C1_Witness ==
    /\ lastStep.kind = "played"
    /\ \E k \in DOMAIN activeChart :
          activeChart[k].hit /\ activeChart[k].hitTime < lastStep.time
    /\ \E k \in DOMAIN activeChart : activeChart[k].missed

\* The notes in the active set.
ActiveSet == {activeNotesRef[i] : i \in DOMAIN activeNotesRef}

\* The calls of the last frame of the given kind.
LastCalls(kind) ==
    {i \in DOMAIN lastStep.calls : lastStep.calls[i].kind = kind}

\* C2: onNoteHit is called at most once per note and session, and never for
\* a note that was already hit or missed (a note has at most one call, hit or
\* miss, and a hit call exactly when its hit flag is set); after the frame
\* that made the call the note has hit = TRUE, hitTime = the frame's audio
\* time, and is not in the active set.
C2_HitOnce ==
    /\ \A k \in DOMAIN activeChart :
          /\ session.hitCalls[k] + session.missCalls[k] <= 1
          /\ session.hitCalls[k] = (IF activeChart[k].hit THEN 1 ELSE 0)
    /\ lastStep.kind = "played" =>
          \A i \in LastCalls("hit") :
             LET n == lastStep.calls[i].note
             IN /\ activeChart[n].hit
                /\ activeChart[n].hitTime = lastStep.time
                /\ n \notin ActiveSet

\* A frame has just hit a note, and another note was hit by an earlier frame.
C2_Witness ==
    /\ lastStep.kind = "played"
    /\ LastCalls("hit") # {}
    /\ \E k \in DOMAIN activeChart :
          session.hitCalls[k] = 1 /\ activeChart[k].hitTime < lastStep.time

\* C3: a note that is active in a frame (already in the active set or
\* spawned by this frame), unresolved, and whose position
\* currentZ = PLAYER_Z - (note.time - now) * NOTE_SPEED exceeds MISS_Z, which
\* is the case exactly when now > note.time + 0.5 s, is marked missed by that
\* frame, is out of the active set after it, and onNoteMiss was called for it
\* by that frame and exactly once in the session.
C3_MissedOnce ==
    [][lastStep'.kind = "played" =>
          \A k \in DOMAIN activeChart :
             LET now == lastStep'.time
                 currentZ == (PLAYER_Z * 1000) - ((activeChart[k].time - now) * NOTE_SPEED)
                 active == k \in ActiveSet \/ (k > nextNoteIndexRef /\ k <= nextNoteIndexRef')
                 unresolved == ~activeChart[k].hit /\ ~activeChart[k].missed
             IN /\ (currentZ > MISS_Z * 1000) <=> (now > activeChart[k].time + 500)
                /\ (active /\ unresolved /\ currentZ > MISS_Z * 1000) =>
                      /\ activeChart'[k].missed
                      /\ k \notin ActiveSet'
                      /\ Cardinality({i \in DOMAIN lastStep'.calls :
                                         lastStep'.calls[i] =
                                            [kind |-> "miss", note |-> k, goodCut |-> FALSE]}) = 1
                      /\ session'.missCalls[k] = 1
                /\ session'.missCalls[k] <= 1]_vars

\* A frame has just missed a note that an earlier frame had spawned, and
\* another note is still active.
C3_Witness ==
    /\ lastStep.kind = "played"
    /\ \E i \in LastCalls("miss") :
          /\ activeChart[lastStep.calls[i].note].missed
          /\ session.missCalls[lastStep.calls[i].note] = 1
    /\ ActiveSet # {}

\* C4: while the chart is not replaced the spawn cursor never decreases, and
\* no note is pushed into the active set more than once (each note's pushes
\* since the chart was set number at most one, and the active set holds no
\* note twice).
C4_CursorMonotonic ==
    [][/\ lastStep'.kind # "chart" => nextNoteIndexRef' >= nextNoteIndexRef
       /\ \A k \in DOMAIN pushCount' : pushCount'[k] <= 1
       /\ Cardinality(ActiveSet') = Len(activeNotesRef')]_vars

\* A frame of a replayed session: at audio time 0 every note of the chart
\* has been pushed once, which only the frames of an earlier session did.
C4_Witness ==
    /\ lastStep.kind = "played"
    /\ lastStep.time = 0
    /\ nextNoteIndexRef = Len(activeChart)
    /\ \A k \in DOMAIN pushCount : pushCount[k] = 1

\* C5: after a frame of PLAYING at audio time t, with the lead time
\* |SPAWN_Z - PLAYER_Z| / NOTE_SPEED = 3 s, every note with
\* note.time - 3 s <= t has an index below the cursor, and the note at the
\* cursor, if there is one, has note.time - 3 s > t.
C5_SpawnedPrefix ==
    lastStep.kind = "played" =>
          /\ spawnAheadTime = 3000
          /\ \A k \in DOMAIN activeChart :
                activeChart[k].time - 3000 <= lastStep.time => k - 1 < nextNoteIndexRef
          /\ nextNoteIndexRef < Len(activeChart) =>
                activeChart[nextNoteIndexRef + 1].time - 3000 > lastStep.time

\* A frame has spawned some notes of the chart and stopped before another.
C5_Witness ==
    /\ lastStep.kind = "played"
    /\ nextNoteIndexRef > 0
    /\ nextNoteIndexRef < Len(activeChart)
    /\ pushCount[nextNoteIndexRef] = 1
    /\ pushCount[nextNoteIndexRef + 1] = 0

\* C6: at the start of every session, a replay of the same song included, the
\* spawn cursor is 0 and the active set is empty.
C6_SessionStartsFresh ==
    lastStep.kind = "start" => nextNoteIndexRef = 0 /\ activeNotesRef = <<>>

\* The points the calls of one frame earn when each hit is paid at the
\* multiplier of the combo immediately before it.
RECURSIVE AwardByCombo(_, _)
AwardByCombo(c, calls) ==
    IF calls = <<>> THEN 0
    ELSE LET call == Head(calls)
             step == IF c > 30 THEN 8 ELSE IF c > 20 THEN 4 ELSE IF c > 10 THEN 2 ELSE 1
         IN IF call.kind = "hit"
            THEN ((IF call.goodCut THEN 150 ELSE 100) * step)
                    + AwardByCombo(c + 1, Tail(calls))
            ELSE AwardByCombo(0, Tail(calls))

\* C7: every hit, two hits of one frame included, adds to the score 100 (150
\* for a good cut) times the multiplier of the combo immediately before that
\* hit's increment.
C7_AwardByComboBefore ==
    [][lastStep'.kind = "played" =>
          score' = score + AwardByCombo(combo, lastStep'.calls)]_vars

\* C8: the multiplier is the step function of combo: 8 above 30, 4 above 20,
\* 2 above 10, otherwise 1.
C8_MultiplierOfCombo ==
    multiplier = (IF combo > 30 THEN 8 ELSE IF combo > 20 THEN 4
                  ELSE IF combo > 10 THEN 2 ELSE 1)

\* C9: after a frame with a miss (the misses are the last calls of a frame)
\* combo is 0 and multiplier is 1, with and without no-fail mode; after a
\* frame with hits only, combo has grown by one per hit.
C9_MissResetsCombo ==
    [][lastStep'.kind = "played" =>
          LET calls == lastStep'.calls
              misses == {i \in DOMAIN calls : calls[i].kind = "miss"}
          IN /\ misses # {} => combo' = 0 /\ multiplier' = 1
             /\ misses = {} => combo' = combo + Len(calls)]_vars

\* C10: between a start request and the end of the session the score never
\* decreases, a frame without a hit leaves it unchanged, and it grows only in
\* a frame with a hit.
C10_ScoreMonotonic ==
    [][/\ lastStep'.kind # "start" => score' >= score
       /\ (lastStep'.kind = "played" /\ \A i \in DOMAIN lastStep'.calls :
                                           lastStep'.calls[i].kind = "miss")
             => score' = score
       /\ score' > score =>
             /\ lastStep'.kind = "played"
             /\ \E i \in DOMAIN lastStep'.calls : lastStep'.calls[i].kind = "hit"]_vars

\* A frame with misses only has run in a session that has points.
C10_Witness ==
    /\ lastStep.kind = "played"
    /\ LastCalls("miss") # {}
    /\ LastCalls("hit") = {}
    /\ score > 0

\* The phases of a session that was started and not yet left.
InSession == gameStatus \in {"COUNTDOWN", "PLAYING", "VICTORY", "GAME_OVER"}

\* C11: in a session with no-fail mode on, health is 100, the value the start
\* request set, after any hits and misses.
C11_NoFailKeepsHealth ==
    (isNoFailMode /\ InSession) => health = 100

\* A no-fail session has had seven misses and a hit.
C11_Witness ==
    /\ isNoFailMode
    /\ gameStatus = "PLAYING"
    /\ session.misses >= 7
    /\ session.events > session.misses

\* C12: in a session without no-fail mode whose calls so far are m <= 7
\* misses and no hit, health is 100, 85, 70, 55, 40, 25, 10, 0 for
\* m = 0..7, and the defeat signal has been raised once when m = 7 and not at
\* all when m <= 6.
C12_SevenMisses ==
    (/\ ~isNoFailMode
     /\ gameStatus \in {"PLAYING", "VICTORY", "GAME_OVER"}
     /\ session.events = session.misses
     /\ session.misses <= 7)
    => /\ health = <<100, 85, 70, 55, 40, 25, 10, 0>>[session.misses + 1]
       /\ session.defeats = (IF session.misses = 7 THEN 1 ELSE 0)

\* The seventh miss of a session without hits has just been handled.
C12_Witness ==
    /\ ~isNoFailMode
    /\ lastStep.kind = "played"
    /\ gameStatus = "PLAYING"
    /\ session.events = 7
    /\ session.misses = 7
    /\ health = 0
    /\ session.defeats = 1

\* C13: in a session without no-fail mode the defeat signal (the deferred
\* endGame(false)) is raised at most once, and has been raised once when
\* health is zero.
C13_DefeatOnce ==
    (~isNoFailMode /\ gameStatus \in {"PLAYING", "VICTORY", "GAME_OVER"})
    => /\ session.defeats <= 1
       /\ health = 0 => session.defeats = 1

\* C14: the phase changes only along LOADING -> IDLE, IDLE -> COUNTDOWN,
\* COUNTDOWN -> PLAYING, COUNTDOWN -> IDLE, PLAYING -> VICTORY,
\* PLAYING -> GAME_OVER, VICTORY -> IDLE and GAME_OVER -> IDLE; every other
\* step leaves it unchanged.
C14_PhaseTransitions ==
    [][\/ gameStatus' = gameStatus
       \/ <<gameStatus, gameStatus'>> \in
             {<<"LOADING", "IDLE">>, <<"IDLE", "COUNTDOWN">>,
              <<"COUNTDOWN", "PLAYING">>, <<"COUNTDOWN", "IDLE">>,
              <<"PLAYING", "VICTORY">>, <<"PLAYING", "GAME_OVER">>,
              <<"VICTORY", "IDLE">>, <<"GAME_OVER", "IDLE">>}]_vars

\* C15: the phase is VICTORY only when the audio has reported ended and no
\* defeat signal was raised (none is pending, none has fired) in the session.
C15_VictoryWithoutDefeat ==
    gameStatus = "VICTORY" =>
       /\ audio.ended
       /\ endGameTimers = 0
       /\ session.defeats = 0

\* C16: the phase is GAME_OVER only in a session without no-fail mode in
\* which health reached 0 (the miss updater raised the defeat signal); in a
\* no-fail session no defeat signal is raised or pending, whatever the number
\* of misses.
C16_GameOverOnlyByDefeat ==
    /\ gameStatus = "GAME_OVER" => ~isNoFailMode /\ session.defeats >= 1
    /\ (isNoFailMode /\ InSession) => session.defeats = 0 /\ endGameTimers = 0

\* A session without no-fail mode has ended in GAME_OVER.
C16_Witness ==
    /\ gameStatus = "GAME_OVER"
    /\ ~isNoFailMode
    /\ health = 0
    /\ session.misses >= 7

\* C17: a start request while the camera is not ready changes no state; a
\* start request while the camera is ready sets score 0, combo 0,
\* multiplier 1, health 100, clears hit and missed on every note of the
\* active chart, sets the countdown to 4 and the phase to COUNTDOWN.
C17_StartRequest ==
    [][/\ lastStep'.kind = "startIgnored" =>
             /\ ~isCameraReady
             /\ UNCHANGED <<gameStatus, isCameraReady, score, combo, multiplier,
                            health, countdown, isNoFailMode, currentSongIndex,
                            activeChart, activeNotesRef, nextNoteIndexRef, audio,
                            playPending, endGameTimers>>
       /\ lastStep'.kind = "start" =>
             /\ isCameraReady
             /\ score' = 0
             /\ combo' = 0
             /\ multiplier' = 1
             /\ health' = 100
             /\ Len(activeChart') = Len(activeChart)
             /\ \A k \in DOMAIN activeChart' :
                   ~activeChart'[k].hit /\ ~activeChart'[k].missed
             /\ countdown' = 4
             /\ gameStatus' = "COUNTDOWN"]_vars

\* A start request was accepted after a session that left points, a broken
\* combo, reduced health and resolved notes behind.
C17_Witness ==
    /\ lastStep.kind = "start"
    /\ gameStatus = "COUNTDOWN"
    /\ nextNoteIndexRef = Len(activeChart)
    /\ \E k \in DOMAIN activeChart : activeChart[k].hitTime # Undefined

\* C18: when the play() call made at the end of the countdown fails, the
\* phase goes from COUNTDOWN to IDLE with score 0, combo 0, multiplier 1 and
\* health 100, and no play() is left pending in IDLE, so PLAYING cannot follow
\* from that start request; PLAYING is entered only by the step in which a
\* pending play() succeeds.
C18_PlayFailure ==
    [][/\ lastStep'.kind = "playFailed" =>
             /\ gameStatus = "COUNTDOWN"
             /\ gameStatus' = "IDLE"
             /\ score' = 0 /\ combo' = 0 /\ multiplier' = 1 /\ health' = 100
       /\ gameStatus' = "IDLE" => ~playPending'
       /\ (gameStatus' = "PLAYING" /\ gameStatus # "PLAYING") =>
             /\ playPending
             /\ ~playPending'
             /\ lastStep'.kind # "playFailed"
             /\ ~audio'.paused]_vars

\* play() has failed for a start request that followed a played session.
C18_Witness ==
    /\ lastStep.kind = "playFailed"
    /\ gameStatus = "IDLE"
    /\ nextNoteIndexRef > 0
    /\ score = 0

\* C19: a note that is past the miss plane at a frame's audio time
\* (now > note.time + 0.5 s) and was not hit by an earlier frame is marked
\* missed after that frame and not hit, and a missed note is never marked hit
\* by a later step of the session.
C19_MissedNeverHit ==
    [][/\ lastStep'.kind = "played" =>
             \A k \in DOMAIN activeChart :
                (lastStep'.time > activeChart[k].time + 500 /\ ~activeChart[k].hit)
                   => activeChart'[k].missed /\ ~activeChart'[k].hit
       /\ ~StartsSession =>
             \A k \in DOMAIN activeChart :
                activeChart[k].missed => ~activeChart'[k].hit]_vars

\* C20: a frame marks a note hit only if the hand of the note's type (the
\* left hand for a left note, the right hand for a right note) is present in
\* that frame, is at distance less than 0.9 from the note's position, and the
\* note's z is strictly between PLAYER_Z - 1.5 and PLAYER_Z + 1.0.
C20_HitNeedsOwnHand ==
    [][lastStep'.kind = "played" =>
          \A k \in DOMAIN activeChart :
             (activeChart'[k].hit /\ ~activeChart[k].hit) =>
                LET note == activeChart[k]
                    own == IF note.type = "left" THEN lastStep'.hands.left
                           ELSE lastStep'.hands.right
                    z == (PLAYER_Z * 1000) - ((note.time - lastStep'.time) * NOTE_SPEED)
                    dx == own.x - LANE_X_POSITIONS[note.lineIndex + 1]
                    dy == own.y - LAYER_Y_POSITIONS[note.lineLayer + 1]
                    dz == own.z - z
                IN /\ own.present
                   /\ (dx * dx) + (dy * dy) + (dz * dz) < 900 * 900
                   /\ z > (PLAYER_Z * 1000) - 1500
                   /\ z < (PLAYER_Z * 1000) + 1000]_vars

\* A frame has hit a right note while the left hand was present as well.
C20_Witness ==
    /\ lastStep.kind = "played"
    /\ \E i \in LastCalls("hit") : activeChart[lastStep.calls[i].note].type = "right"
    /\ lastStep.hands.left.present


C22_ChartSorted ==
    lastStep.kind = "returned" =>
       \A i \in 1..(Len(activeChart) - 1) : activeChart[i].time <= activeChart[i + 1].time

\* A returned chart holds a stream pair (beats 32..47: a right note one beat
\* after a left note) and single notes after it.
C22_Witness ==
    /\ lastStep.kind = "returned"
    /\ \E i \in 1..(Len(activeChart) - 2) :
          /\ activeChart[i].type = "left"
          /\ activeChart[i + 1].type = "right"
          /\ activeChart[i + 1].time = activeChart[i].time + (60000 \div lastStep.bpm)
          /\ activeChart[i + 2].time > activeChart[i + 1].time


\* C23: with the same lane draws, generateChart(bpm, o, duration) returns as
\* many notes as generateChart(bpm, 0, duration), and its i-th note is the
\* i-th note of the offset-0 chart with o added to the time and every other
\* field equal; o may be negative.
C23_OffsetShiftsChart ==
    lastStep.kind = "returned" =>
       LET base == generateChart(lastStep.bpm, 0, lastStep.durationSeconds, lastStep.d)
       IN /\ Len(activeChart) = Len(base)
          /\ \A i \in DOMAIN base :
                activeChart[i] = [base[i] EXCEPT !.time = @ + lastStep.offset]

\* A chart with a stream pair was returned for a negative offset.
C23_Witness ==
    /\ lastStep.kind = "returned"
    /\ lastStep.offset < 0
    /\ \E i \in 1..(Len(activeChart) - 1) :
          /\ activeChart[i].type = "left"
          /\ activeChart[i + 1].type = "right"
          /\ activeChart[i + 1].time = activeChart[i].time + (60000 \div lastStep.bpm)

\* C24: every note generateChart returns has time >= offset + 4 * (60 / bpm)
\* and time <= offset + totalBeats * (60 / bpm), where totalBeats is
\* ceil(durationSeconds / 60 * bpm); every note of generateChart(120, 0, 60)
\* has its time in [2.0 s, 60 s].
C24_NoteTimesInRange ==
    (lastStep.kind = "returned" /\ lastStep.bpm > 0) =>
       LET beatTime == 60000 \div lastStep.bpm
           totalBeats == ((lastStep.durationSeconds * lastStep.bpm) + 59) \div 60
       IN \A i \in DOMAIN activeChart :
             /\ activeChart[i].time >= lastStep.offset + (4 * beatTime)
             /\ activeChart[i].time <= lastStep.offset + (totalBeats * beatTime)
             /\ (lastStep.bpm = 120 /\ lastStep.offset = 0
                    /\ lastStep.durationSeconds = 60) =>
                   (activeChart[i].time >= 2000 /\ activeChart[i].time <= 60000)

\* generateChart(120, 0, 60) has returned a chart whose first note is at
\* 2.0 s and whose notes reach the pairs and the streams.
C24_Witness ==
    /\ lastStep.kind = "returned"
    /\ lastStep.bpm = 120 /\ lastStep.offset = 0 /\ lastStep.durationSeconds = 60
    /\ Len(activeChart) > 0
    /\ activeChart[1].time = 2000
    /\ \E i \in DOMAIN activeChart : activeChart[i].lineLayer = 1
    /\ \E i \in DOMAIN activeChart :
          activeChart[i].type = "right" /\ activeChart[i].time % 1000 = 500

\* C25: generateChart called with bpm <= 0 or a non-positive duration fails
\* with a validation error and returns no chart.
C25_RejectsInvalidParameters ==
    [][(lastStep.kind = "parameters"
          /\ (lastStep.bpm <= 0 \/ lastStep.durationSeconds <= 0)) =>
             (lastStep'.kind = "failed" /\ UNCHANGED activeChart)]_vars


\* C30: for both outcomes of the lane draws, every note generateChart returns
\* for the left hand has lane 0 or 1, every note for the right hand has lane
\* 2 or 3, every layer is 0 or 1, every cut direction is ANY, and the ids of
\* the notes are pairwise distinct.
C30_LanesLayersIds ==
    lastStep.kind = "returned" =>
       /\ \A i \in DOMAIN activeChart :
             /\ activeChart[i].type \in {"left", "right"}
             /\ activeChart[i].type = "left" => activeChart[i].lineIndex \in {0, 1}
             /\ activeChart[i].type = "right" => activeChart[i].lineIndex \in {2, 3}
             /\ activeChart[i].lineLayer \in {0, 1}
             /\ activeChart[i].cutDirection = "ANY"
       /\ \A i, j \in DOMAIN activeChart :
             activeChart[i].id = activeChart[j].id => i = j

\* A chart drawn with the second lane of each hand was returned that holds a
\* single left note in lane 1, a pair on layer 1 and a stream's right note in
\* lane 3.
C30_Witness ==
    /\ lastStep.kind = "returned"
    /\ lastStep.d = 1
    /\ \E i \in DOMAIN activeChart :
          activeChart[i].type = "left" /\ activeChart[i].lineIndex = 1
    /\ \E i \in 1..(Len(activeChart) - 1) :
          /\ activeChart[i].lineLayer = 1 /\ activeChart[i + 1].lineLayer = 1
          /\ activeChart[i].time = activeChart[i + 1].time
    /\ \E i \in 2..Len(activeChart) :
          /\ activeChart[i].type = "right" /\ activeChart[i].lineIndex = 3
          /\ activeChart[i - 1].type = "left"
          /\ activeChart[i - 1].time < activeChart[i].time


\* C27: a gameplay frame that reads the same audio time and the same hands as
\* the frame before it makes no call to onNoteHit or onNoteMiss and leaves the
\* spawn cursor, the active notes, every note's flags and hit time, score,
\* combo, multiplier and health as they were, and schedules no endGame.
C27_RepeatedFrameChangesNothing ==
    [][(/\ lastStep.kind = "played"
        /\ lastStep'.kind = "played"
        /\ lastStep'.time = lastStep.time
        /\ lastStep'.hands = lastStep.hands) =>
          /\ lastStep'.calls = <<>>
          /\ lastStep'.pushed = <<>>
          /\ UNCHANGED <<nextNoteIndexRef, activeNotesRef, activeChart, score, combo,
                         multiplier, health, endGameTimers, gameStatus>>]_vars

\* A frame has repeated the clock value and the hands of a frame that hit a
\* note and missed another, while a third note is still active.
C27_Witness ==
    /\ lastStep.kind = "played"
    /\ lastStep.repeated
    /\ \E k \in DOMAIN activeChart :
          activeChart[k].hit /\ activeChart[k].hitTime = lastStep.time
    /\ \E k \in DOMAIN activeChart :
          /\ activeChart[k].missed
          /\ activeChart[k].time + 500 < lastStep.time
          /\ activeChart[k].time + 500 + TickStep >= lastStep.time
    /\ activeNotesRef # <<>>


\* C28: isNoFailMode changes only in a step taken in phase IDLE that leaves
\* the phase IDLE, so it keeps the value it had at the start request until
\* the phase is IDLE again.
C28_NoFailChangesOnlyInIdle ==
    [][isNoFailMode' # isNoFailMode => (gameStatus = "IDLE" /\ gameStatus' = "IDLE")]_vars

\* A session started in no-fail mode has left IDLE, has seen a miss and is
\* being played in no-fail mode.
C28_Witness ==
    /\ isNoFailMode
    /\ gameStatus = "PLAYING"
    /\ lastStep.kind = "played"
    /\ session.misses > 0

\* The health after the calls of one frame: a hit gives min(100, h + 2), a
\* miss gives max(0, h - 15) in normal mode and h in no-fail mode.
RECURSIVE HealthAfter(_, _, _)
HealthAfter(h, calls, noFail) ==
    IF calls = <<>> THEN h
    ELSE LET next == IF Head(calls).kind = "hit"
                     THEN (IF h + 2 > 100 THEN 100 ELSE h + 2)
                     ELSE IF noFail THEN h
                     ELSE (IF h - 15 < 0 THEN 0 ELSE h - 15)
         IN HealthAfter(next, Tail(calls), noFail)

\* C29: health is in 0..100 in every state; a frame's calls change it call by
\* call, a hit to min(100, health + 2) and a miss in normal mode to
\* max(0, health - 15); a start request sets it to 100 and no other step
\* changes it.
C29_HealthRange ==
    [][/\ health \in 0..100
       /\ health' \in 0..100
       /\ health' = IF lastStep'.kind = "played"
                    THEN HealthAfter(health, lastStep'.calls, isNoFailMode)
                    ELSE IF lastStep'.kind = "start" THEN 100
                    ELSE health]_vars

\* In normal mode a session with one hit has come down to health 0 at its
\* seventh miss.
C29_Witness ==
    /\ ~isNoFailMode
    /\ lastStep.kind = "played"
    /\ session.misses = 7
    /\ session.events = 8
    /\ health = 0


\* The notes of a chart without the flags a frame sets.
ChartNotes(chart) ==
    [k \in DOMAIN chart |->
        [id |-> chart[k].id, time |-> chart[k].time, type |-> chart[k].type,
         lineIndex |-> chart[k].lineIndex, lineLayer |-> chart[k].lineLayer]]

\* C26: a step taken while the phase is COUNTDOWN or PLAYING changes neither
\* the active song nor the notes of the active chart, whenever the startup
\* load, a save or a removal of a custom song completes.
C26_ChartFixedInSession ==
    [][(gameStatus = "COUNTDOWN" \/ gameStatus = "PLAYING") =>
          /\ activeSong(librarySongs', currentSongIndex').id
                = activeSong(librarySongs, currentSongIndex).id
          /\ ChartNotes(activeChart') = ChartNotes(activeChart)]_vars


\* C31: in every chart generateChart returns, the notes that share one time
\* are at most two, and two notes with the same time are one for the left
\* hand and one for the right hand; this holds across the boundaries of the
\* 16-beat pattern windows, where the right note a stream pushes one beat
\* after beat 46 comes before the first note of the next window.
C31_AtMostOnePairPerTime ==
    lastStep.kind = "returned" =>
       \A i \in DOMAIN activeChart :
          LET same == {j \in DOMAIN activeChart : activeChart[j].time = activeChart[i].time}
          IN /\ Cardinality(same) <= 2
             /\ \A j \in same : j # i => activeChart[j].type # activeChart[i].type

\* A returned chart holds a pair (two notes at one time), and a stream's
\* right note on beat 47 followed by the single note of beat 48.
C31_Witness ==
    /\ lastStep.kind = "returned"
    /\ lastStep.bpm > 0
    /\ \E i \in 1..(Len(activeChart) - 1) : activeChart[i].time = activeChart[i + 1].time
    /\ \E i \in 1..(Len(activeChart) - 1) :
          /\ activeChart[i].type = "right"
          /\ activeChart[i].time = lastStep.offset + (47 * (60000 \div lastStep.bpm))
          /\ activeChart[i + 1].time = lastStep.offset + (48 * (60000 \div lastStep.bpm))


\* C32: in no frame is a note eligible for the collision check and for the
\* miss check: the band PLAYER_Z - 1.5 < z < PLAYER_Z + 1.0 and the miss
\* region z > MISS_Z have no z in common, and a note whose z is in
\* [PLAYER_Z + 1.0, MISS_Z] in a frame is neither hit nor missed by that
\* frame, wherever the hands are.
C32_BandAndMissDisjoint ==
    [][lastStep'.kind = "played" =>
          \A k \in DOMAIN activeChart :
             LET z == (PLAYER_Z * 1000) - ((activeChart[k].time - lastStep'.time) * NOTE_SPEED)
                 inBand == z > (PLAYER_Z * 1000) - 1500 /\ z < (PLAYER_Z * 1000) + 1000
                 passed == z > MISS_Z * 1000
             IN /\ ~(inBand /\ passed)
                /\ (z >= (PLAYER_Z * 1000) + 1000 /\ z <= MISS_Z * 1000) =>
                      /\ activeChart'[k] = activeChart[k]
                      /\ \A i \in DOMAIN lastStep'.calls : lastStep'.calls[i].note # k
                      /\ (k \in ActiveSet => \E i \in DOMAIN activeNotesRef' :
                                                activeNotesRef'[i] = k)]_vars

\* A frame has left a note active and unresolved whose z is in [1.0, 5]
\* while the hand of its type was within reach of it.
C32_Witness ==
    /\ lastStep.kind = "played"
    /\ \E k \in ActiveSet :
          LET note == activeChart[k]
              z == (PLAYER_Z * 1000) - ((note.time - lastStep.time) * NOTE_SPEED)
              own == IF note.type = "left" THEN lastStep.hands.left
                     ELSE lastStep.hands.right
          IN /\ ~note.hit /\ ~note.missed
             /\ z >= (PLAYER_Z * 1000) + 1000 /\ z <= MISS_Z * 1000
             /\ own.present
             /\ WithinReach(own, LANE_X_POSITIONS[note.lineIndex + 1],
                            LAYER_Y_POSITIONS[note.lineLayer + 1], z)


\* C33: a gameplay frame evaluates each note that is active after the spawn
\* step exactly once, although it removes resolved notes from the array it
\* walks: no note gets two calls in one frame, every unresolved note that is
\* active after the spawn step and is cut or behind the miss plane gets
\* exactly one call, no other note gets a call, and the notes left active are
\* the unresolved ones, in their order.
C33_EachActiveNoteOnce ==
    [][lastStep'.kind = "played" =>
          LET calls == lastStep'.calls
              afterSpawn == activeNotesRef \o lastStep'.pushed
              Resolves(k) ==
                 LET note == activeChart[k]
                     own == IF note.type = "left" THEN lastStep'.hands.left
                            ELSE lastStep'.hands.right
                     z == (PLAYER_Z * 1000) - ((note.time - lastStep'.time) * NOTE_SPEED)
                 IN /\ ~note.hit /\ ~note.missed
                    /\ \/ z > MISS_Z * 1000
                       \/ /\ z > (PLAYER_Z * 1000) - 1500
                          /\ z < (PLAYER_Z * 1000) + 1000
                          /\ own.present
                          /\ WithinReach(own, LANE_X_POSITIONS[note.lineIndex + 1],
                                         LAYER_Y_POSITIONS[note.lineLayer + 1], z)
          IN /\ \A i, j \in DOMAIN calls : calls[i].note = calls[j].note => i = j
             /\ \A p \in DOMAIN afterSpawn :
                   Resolves(afterSpawn[p]) <=>
                      \E i \in DOMAIN calls : calls[i].note = afterSpawn[p]
             /\ \A i \in DOMAIN calls :
                   \E p \in DOMAIN afterSpawn : afterSpawn[p] = calls[i].note
             /\ activeNotesRef' = SelectSeq(afterSpawn, LAMBDA k : ~Resolves(k))]_vars

\* A frame has resolved two notes that were next to each other in the
\* active array and has left a note active behind them.
C33_Witness ==
    /\ lastStep.kind = "played"
    /\ "pushed" \in DOMAIN lastStep
    /\ Len(lastStep.calls) >= 2
    /\ \E i \in 1..(Len(lastStep.calls) - 1) :
          lastStep.calls[i].note = lastStep.calls[i + 1].note + 1
    /\ activeNotesRef # <<>>


\* C34: after every gameplay frame, in first sessions and in replays of the
\* same chart, no note is twice in the active array, every note in it is
\* below the spawn cursor and has neither hit nor missed set, and every note
\* below the cursor is in the active array or has hit or missed set.
C34_ActiveSetInvariant ==
    lastStep.kind = "played" =>
       /\ \A i, j \in DOMAIN activeNotesRef :
             activeNotesRef[i] = activeNotesRef[j] => i = j
       /\ \A k \in ActiveSet :
             /\ k <= nextNoteIndexRef
             /\ ~activeChart[k].hit
             /\ ~activeChart[k].missed
       /\ \A k \in 1..nextNoteIndexRef :
             k \in ActiveSet \/ activeChart[k].hit \/ activeChart[k].missed


\* One step of C35: outside a session (phase VICTORY, GAME_OVER, or IDLE after
\* it) a step that is neither a start request nor a change of chart leaves
\* score, combo, health, the notes, the cursor and the active array alone;
\* the frame that finds the audio ended does the same.
C35_Step ==
    /\ (/\ (gameStatus = "VICTORY" \/ gameStatus = "GAME_OVER" \/ gameStatus = "IDLE")
        /\ lastStep'.kind # "start"
        /\ lastStep'.kind # "chart")
          => UNCHANGED <<score, combo, health, activeChart, nextNoteIndexRef,
                         activeNotesRef>>
    /\ (lastStep'.kind = "ended" /\ lastStep # lastStep')
          => UNCHANGED <<score, combo, multiplier, health, activeChart,
                         nextNoteIndexRef, activeNotesRef>>

\* C35: spawn, collision, miss resolution and scoring run only while the phase
\* is PLAYING: after VICTORY or GAME_OVER score, combo, health and every
\* note's status stay as they are until the next start request, and the frame
\* in which the audio reports ended spawns and resolves no note.
C35_GameplayOnlyWhilePlaying == [][C35_Step]_vars

\* The audio has just ended with points scored and a spawned, unresolved note
\* still in the active array.
C35_Witness ==
    /\ gameStatus = "VICTORY"
    /\ lastStep.kind = "ended"
    /\ score > 0
    /\ \E k \in ActiveSet : ~activeChart[k].hit /\ ~activeChart[k].missed


\* One step of C36: a start request sets the countdown to 4 with no play()
\* pending; during COUNTDOWN the countdown stays or goes down by one; play()
\* is requested in the step from 1 to 0 and in no other; the phase leaves
\* COUNTDOWN only when the pending play() settles, for PLAYING when it
\* resolved and for IDLE when it was rejected.
C36_Step ==
    /\ lastStep'.kind = "start" => (countdown' = 4 /\ ~playPending')
    /\ gameStatus = "COUNTDOWN" =>
          (countdown' = countdown \/ (countdown > 0 /\ countdown' = countdown - 1))
    /\ (~playPending /\ playPending') <=>
          (gameStatus = "COUNTDOWN" /\ countdown = 1 /\ countdown' = 0)
    /\ (gameStatus = "COUNTDOWN" /\ gameStatus' # "COUNTDOWN") =>
          /\ countdown = 0
          /\ playPending /\ ~playPending'
          /\ gameStatus' = (IF lastStep'.kind = "playFailed" THEN "IDLE" ELSE "PLAYING")

\* C36: once the phase is COUNTDOWN, with the one-second timers firing and
\* play() settling, the countdown goes 4, 3, 2, 1, 0, play() is requested
\* exactly once (at 0, and it is pending for as long as the phase stays
\* COUNTDOWN at 0), and the phase eventually becomes PLAYING or IDLE.
C36_CountdownReachesPlay ==
    /\ [][C36_Step]_vars
    /\ [](gameStatus = "COUNTDOWN" => (playPending <=> countdown = 0))
    /\ (gameStatus = "COUNTDOWN") ~> (gameStatus = "PLAYING" \/ gameStatus = "IDLE")

\* play() has just resolved at the end of a countdown.
C36_Witness ==
    /\ gameStatus = "PLAYING"
    /\ countdown = 0
    /\ ~playPending
    /\ ~audio.paused
    /\ audio.currentTime = 0
    /\ lastStep.kind = "other"


\* The notes of the chart of InitHands.
C37_Notes == 1..Len(ChartOf(1, CHOOSE d \in LaneDraws : TRUE))

\* One step of C37: a note in the active array after the spawn of a gameplay
\* frame whose clock is more than 0.5 s past the note's time is marked missed
\* and taken out of the array in that frame.
C37_Step ==
    lastStep'.kind = "played" =>
       \A k \in 1..Len(activeChart) :
          (/\ k \in ActiveSet \/ (k > nextNoteIndexRef /\ k <= nextNoteIndexRef')
           /\ ~activeChart[k].hit
           /\ ~activeChart[k].missed
           /\ audio'.currentTime > activeChart[k].time + 500)
             => /\ activeChart'[k].missed
                /\ ~activeChart'[k].hit
                /\ \A i \in DOMAIN activeNotesRef' : activeNotesRef'[i] # k

\* C37: while the phase stays PLAYING and the audio clock keeps advancing,
\* every note admitted to the active array is eventually marked hit or missed
\* and taken out of it; a note active in a frame later than its time + 0.5 s
\* is marked missed in that frame.
C37_ActiveNoteResolved ==
    /\ [][C37_Step]_vars
    /\ \A k \in C37_Notes :
          (k \in ActiveSet) ~>
             \/ gameStatus # "PLAYING"
             \/ /\ k \notin ActiveSet
                /\ activeChart[k].hit \/ activeChart[k].missed

\* The last note of the chart has been missed in a frame, with the phase
\* still PLAYING.
C37_Witness ==
    /\ gameStatus = "PLAYING"
    /\ lastStep.kind = "played"
    /\ \E i \in DOMAIN lastStep.calls :
          /\ lastStep.calls[i].kind = "miss"
          /\ lastStep.calls[i].note = Len(activeChart)
    /\ activeChart[Len(activeChart)].missed
    /\ Len(activeChart) \notin ActiveSet
    /\ lastStep.time > activeChart[Len(activeChart)].time + 500

====
